---------------------------- MODULE Spec2Model ----------------------------
(***************************************************************************)
(* Fixed-point golden kernels of the int8 transformer accelerator:         *)
(* softmax with the bipartite exponential, the LOD-LUT-Shift inverse       *)
(* square root with its table generator, LayerNorm and requantization.     *)
(* Each kernel is a small state machine over its own variables; a kernel   *)
(* that a specification does not run stays in its "off" state.             *)
(***************************************************************************)
EXTENDS Integers, Sequences, FiniteSets, TLC

VARIABLES
  \* softmax (validate_softmax.py: golden_softmax)
  sm_pc, sm_inputs, lut0, lut1, max_val, exp_vals, sum_acc, ln_offset, sm_outputs,
  \* inverse square root (gen_inv_sqrt_lut.py, validate_inv_sqrt.py: golden_inv_sqrt)
  isq_pc, hex_file, isq_lut, isq_dw, isq_d, isq_out, isq_prev,
  \* LayerNorm (validate_layernorm.py: golden_layernorm)
  ln_pc, ln_inputs, gamma_bytes, beta_bytes, isqrt_lut, mean, centered, var_acc,
  inv_std, ln_chan, ln_outputs,
  \* requantization (validate_requant.py: golden_requant)
  rq_pc, rq_cfg, acc, scale, rq_res,
  \* MatVec (validate_matvec.py: golden_matvec)
  mv_pc, mv_raw, mv_row, mv_acc, mv_out, mv_racc, mv_ref,
  \* bipartite exponential as a function (validate_softmax.py: bipartite_exp)
  be_pc, be_d, be_l0, be_l1, be_res,
  \* embedding combiner (validate_embedding.py: golden_byte)
  em_pc, em_t, em_p, em_res,
  \* KV cache (tb_kv_cache, validate_kv_cache.py: EXPECTED)
  kv_pc, kv_coord, kv_slot, kv_mem, kv_log, kv_rd,
  \* weight archive: reader position, program, damage, source tensors, file bytes, offset, count, parsed tensors, written files
  ar_pc, ar_prog, ar_damage, ar_src, ar_in, ar_pos, ar_num, ar_tensors, ar_files,
  ar_report,
  \* GELU table generator: position, calibrated scales, layer, combined table, hex file
  ge_pc, ge_scales, ge_layer, ge_lut, ge_file

smVars == <<sm_pc, sm_inputs, lut0, lut1, max_val, exp_vals, sum_acc, ln_offset, sm_outputs>>

isqVars == <<isq_pc, hex_file, isq_lut, isq_dw, isq_d, isq_out, isq_prev>>

lnVars == <<ln_pc, ln_inputs, gamma_bytes, beta_bytes, isqrt_lut, mean, centered,
           var_acc, inv_std, ln_chan, ln_outputs>>

rqVars == <<rq_pc, rq_cfg, acc, scale, rq_res>>

mvVars == <<mv_pc, mv_raw, mv_row, mv_acc, mv_out, mv_racc, mv_ref>>

beVars == <<be_pc, be_d, be_l0, be_l1, be_res>>

emVars == <<em_pc, em_t, em_p, em_res>>

kvVars == <<kv_pc, kv_coord, kv_slot, kv_mem, kv_log, kv_rd>>

arVars == <<ar_pc, ar_prog, ar_damage, ar_src, ar_in, ar_pos, ar_num,
            ar_tensors, ar_files, ar_report>>

geVars == <<ge_pc, ge_scales, ge_layer, ge_lut, ge_file>>

vars == <<smVars, isqVars, lnVars, rqVars, mvVars, beVars, emVars, kvVars,
          arVars, geVars>>

\* what a kernel's steps leave alone: the variables of the other kernels
notSm == <<isqVars, lnVars, rqVars, mvVars, beVars, emVars, kvVars, arVars,
           geVars>>

notIsq == <<smVars, lnVars, rqVars, mvVars, beVars, emVars, kvVars, arVars,
            geVars>>

notLn == <<smVars, isqVars, rqVars, mvVars, beVars, emVars, kvVars, arVars,
           geVars>>

notRq == <<smVars, isqVars, lnVars, mvVars, beVars, emVars, kvVars, arVars,
           geVars>>

notMv == <<smVars, isqVars, lnVars, rqVars, beVars, emVars, kvVars, arVars,
           geVars>>

notBe == <<smVars, isqVars, lnVars, rqVars, mvVars, emVars, kvVars, arVars,
           geVars>>

notEm == <<smVars, isqVars, lnVars, rqVars, mvVars, beVars, kvVars, arVars,
           geVars>>

notKv == <<smVars, isqVars, lnVars, rqVars, mvVars, beVars, emVars, arVars,
           geVars>>

notAr == <<smVars, isqVars, lnVars, rqVars, mvVars, beVars, emVars, kvVars,
           geVars>>

notGe == <<smVars, isqVars, lnVars, rqVars, mvVars, beVars, emVars, kvVars,
           arVars>>

(***************************************************************************)
(* Integer helpers: Python's >>, <<, & with a low-bit mask, max and min.   *)
(***************************************************************************)
Pow2(n) == 2 ^ n

\* x >> n : arithmetic shift, rounds toward minus infinity
Shr(x, n) == x \div Pow2(n)

\* x << n
Shl(x, n) == x * Pow2(n)

\* x & ((1 << n) - 1) : the low n bits, always non-negative
LowBits(x, n) == x % Pow2(n)

\* (x >> i) & 1
Bit(x, i) == (x \div Pow2(i)) % 2

Max2(a, b) == IF a >= b THEN a ELSE b

Min2(a, b) == IF a <= b THEN a ELSE b

SetMax(S) == CHOOSE m \in S : \A x \in S : x <= m

Rep(n, v) == [i \in 1..n |-> v]

\* s[lo] + ... + s[hi]; integer addition is exact, the halving keeps the
\* evaluation shallow
RECURSIVE SumRange(_, _, _)
SumRange(s, lo, hi) ==
  IF lo > hi THEN 0
  ELSE IF lo = hi THEN s[lo]
  ELSE LET mid == (lo + hi) \div 2
       IN  SumRange(s, lo, mid) + SumRange(s, mid + 1, hi)

SeqSum(s) == SumRange(s, 1, Len(s))

SeqMax(s) == SetMax({s[i] : i \in 1..Len(s)})

(***************************************************************************)
(* Softmax constants                                                       *)
(***************************************************************************)
FRAC_W == 7

D_CLIP == 2048

LN2_Q7 == 89

LN1PS_LUT == <<0, 8, 15, 22, 29, 35, 41, 47, 53, 58, 63, 68, 73, 78, 82, 87>>

(***************************************************************************)
(* The bipartite tables are read from exp_lut0.hex / exp_lut1.hex, so the  *)
(* kernel takes them as inputs.  InitLut0 and InitLut1 are the closed-form *)
(* tables of init_lut0() and init_lut1() after the integer quantisation    *)
(* optimize_luts applies to its result; ZeroLut is the all-zero image.     *)
(***************************************************************************)
InitLut0 ==
  <<31884, 29952, 28138, 26433, 24831, 23327, 21914, 20586,
    19339, 18167, 17066, 16032, 15061, 14149, 13291, 12486,
    11730, 11019, 10351, 9724, 9135, 8581, 8062, 7573,
    7114, 6683, 6278, 5898, 5541, 5205, 4890, 4593,
    4315, 4054, 3808, 3577, 3361, 3157, 2966, 2786,
    2617, 2459, 2310, 2170, 2038, 1915, 1799, 1690,
    1587, 1491, 1401, 1316, 1236, 1161, 1091, 1025,
    963, 904, 850, 798, 750, 704, 662, 622,
    584, 549, 515, 484, 455, 427, 401, 377,
    354, 333, 313, 294, 276, 259, 243, 229,
    215, 202, 190, 178, 167, 157, 148, 139,
    130, 122, 115, 108, 101, 95, 90, 84,
    79, 74, 70, 66, 62, 58, 54, 51,
    48, 45, 42, 40, 37, 35, 33, 31,
    29, 27, 26, 24, 23, 21, 20, 19,
    18, 17, 16, 15, 14, 13, 12, 11,
    11, 10, 9, 9, 8, 8, 7, 7,
    6, 6, 6, 5, 5, 5, 4, 4,
    4, 4, 3, 3, 3, 3, 3, 3,
    2, 2, 2, 2, 2, 2, 2, 2,
    1, 1, 1, 1, 1, 1, 1, 1,
    1, 1, 1, 1, 1, 1, 1, 1,
    1, 1, 0, 0, 0, 0, 0, 0,
    0, 0, 0, 0, 0, 0, 0, 0,
    0, 0, 0, 0, 0, 0, 0, 0,
    0, 0, 0, 0, 0, 0, 0, 0,
    0, 0, 0, 0, 0, 0, 0, 0,
    0, 0, 0, 0, 0, 0, 0, 0,
    0, 0, 0, 0, 0, 0, 0, 0,
    0, 0, 0, 0, 0, 0, 0, 0,
    0, 0, 0, 0, 0, 0, 0, 0,
    0, 0, 0, 0, 0, 0, 0, 0>>

InitLut1 ==
  <<701, 500, 300, 100, -100, -300, -500, -701,
    425, 303, 182, 61, -61, -182, -303, -425,
    258, 184, 110, 37, -37, -110, -184, -258,
    156, 112, 67, 22, -22, -67, -112, -156,
    95, 68, 41, 14, -14, -41, -68, -95,
    58, 41, 25, 8, -8, -25, -41, -58,
    35, 25, 15, 5, -5, -15, -25, -35,
    21, 15, 9, 3, -3, -9, -15, -21,
    13, 9, 5, 2, -2, -5, -9, -13,
    8, 6, 3, 1, -1, -3, -6, -8,
    5, 3, 2, 1, -1, -2, -3, -5,
    3, 2, 1, 0, 0, -1, -2, -3,
    2, 1, 1, 0, 0, -1, -1, -2,
    1, 1, 0, 0, 0, 0, -1, -1,
    1, 0, 0, 0, 0, 0, 0, -1,
    0, 0, 0, 0, 0, 0, 0, 0,
    0, 0, 0, 0, 0, 0, 0, 0,
    0, 0, 0, 0, 0, 0, 0, 0,
    0, 0, 0, 0, 0, 0, 0, 0,
    0, 0, 0, 0, 0, 0, 0, 0,
    0, 0, 0, 0, 0, 0, 0, 0,
    0, 0, 0, 0, 0, 0, 0, 0,
    0, 0, 0, 0, 0, 0, 0, 0,
    0, 0, 0, 0, 0, 0, 0, 0,
    0, 0, 0, 0, 0, 0, 0, 0,
    0, 0, 0, 0, 0, 0, 0, 0,
    0, 0, 0, 0, 0, 0, 0, 0,
    0, 0, 0, 0, 0, 0, 0, 0,
    0, 0, 0, 0, 0, 0, 0, 0,
    0, 0, 0, 0, 0, 0, 0, 0,
    0, 0, 0, 0, 0, 0, 0, 0,
    0, 0, 0, 0, 0, 0, 0, 0>>

ZeroLut == Rep(256, 0)

\* the table images the kernel is run with: <<lut0, lut1>>
LutPairs == {<<InitLut0, InitLut1>>, <<ZeroLut, ZeroLut>>}

(***************************************************************************)
(* Softmax kernel                                                          *)
(***************************************************************************)
\* the fields of d_q47 and the two table addresses (0-based, as in Python)
bipartite_addr(d_q47) ==
  LET x0 == LowBits(Shr(d_q47, 6), 5)
      x1 == LowBits(Shr(d_q47, 3), 3)
      x2 == LowBits(d_q47, 3)
  IN  [x0 |-> x0, x1 |-> x1, x2 |-> x2,
       a0 |-> Shl(x0, 3) + x1, a1 |-> Shl(x0, 3) + x2]

\* the tables are read for every distance, the clip included
bipartite_exp_noclip(d_q47, l0, l1) ==
  LET ad  == bipartite_addr(d_q47)
      val == l0[ad.a0 + 1] + l1[ad.a1 + 1]
  IN  IF val < 0 THEN 0 ELSE IF val > 32768 THEN 32768 ELSE val

\* the sum is not clamped at 32768 (mutant)
bipartite_exp_noclamp(d_q47, l0, l1) ==
  IF d_q47 >= D_CLIP THEN 0
  ELSE LET ad  == bipartite_addr(d_q47)
           val == l0[ad.a0 + 1] + l1[ad.a1 + 1]
       IN  IF val < 0 THEN 0 ELSE val

\* bipartite_exp(d_q47, lut0, lut1); Python lists are 0-based, sequences 1-based
bipartite_exp(d_q47, l0, l1) ==
  IF d_q47 >= D_CLIP THEN 0
  ELSE LET ad  == bipartite_addr(d_q47)
           val == l0[ad.a0 + 1] + l1[ad.a1 + 1]
       IN  IF val < 0 THEN 0 ELSE IF val > 32768 THEN 32768 ELSE val

\* lod24(val): position of the leading one among bits 0..23
lod24(val) ==
  IF val = 0 THEN 0
  ELSE LET ones == {i \in 0..23 : Bit(val, i) = 1}
       IN  IF ones = {} THEN 0 ELSE SetMax(ones)

\* the leading one is kept in the mantissa (mutant)
lod_mantissa_top(val, k) ==
  IF k >= 3 THEN LowBits(Shr(val, k - 3), 4)
            ELSE LowBits(Shl(val, 3 - k), 4)

\* lod_mantissa(val, k): the 4 bits below the leading one
lod_mantissa(val, k) ==
  IF k >= 4 THEN LowBits(Shr(val, k - 4), 4)
            ELSE LowBits(Shl(val, 4 - k), 4)

\* the distance max_val - x as clipped Q4.7 (lines 84-90 and 116-123)
DistQ47(mx, x) ==
  LET d_raw  == mx - x
      d_int  == Shr(d_raw, FRAC_W)
      d_frac == LowBits(d_raw, FRAC_W)
  IN  IF d_int >= 16 THEN D_CLIP ELSE Shl(d_int, FRAC_W) + d_frac

\* Phase 3: LN_SUM
LnOffset(sum) ==
  IF sum = 0 THEN D_CLIP
  ELSE LET k      == lod24(sum)
           s      == lod_mantissa(sum, k)
           ln_raw == (k - 15) * LN2_Q7 + LN1PS_LUT[s + 1]
       IN  IF ln_raw < 0 THEN 0
           ELSE IF ln_raw >= D_CLIP THEN D_CLIP
           ELSE ln_raw

\* Phase 4 with the operands of the distance swapped (mutant)
NormDist_swapped(mx, x, ln) ==
  LET d_raw      == x - mx
      d_int      == Shr(d_raw, FRAC_W)
      d_overflow == d_int >= 16
      d_q47      == DistQ47(x, mx)
      d_plus_ln  == d_q47 + ln
  IN  IF d_overflow \/ d_plus_ln >= D_CLIP THEN D_CLIP ELSE d_plus_ln

\* Phase 4 with ln_offset left out of the normalised distance (mutant)
NormDist_noln(mx, x, ln) ==
  LET d_raw      == mx - x
      d_int      == Shr(d_raw, FRAC_W)
      d_overflow == d_int >= 16
      d_q47      == DistQ47(mx, x)
  IN  IF d_overflow \/ d_q47 >= D_CLIP THEN D_CLIP ELSE d_q47

\* Phase 4: the normalised distance d_norm of one element
NormDist(mx, x, ln) ==
  LET d_raw      == mx - x
      d_int      == Shr(d_raw, FRAC_W)
      d_overflow == d_int >= 16
      d_q47      == DistQ47(mx, x)
      d_plus_ln  == d_q47 + ln
  IN  IF d_overflow \/ d_plus_ln >= D_CLIP THEN D_CLIP ELSE d_plus_ln

\* bounds of the input vectors: a run of equal logits followed by a tail
MaxRun == 52

MaxTail == 2

\* logit values; the log parser accepts any integer, the wide one drives the clip
LogitVals == {-3000, -1900, -128, -2, -1, 0, 127}

SoftmaxInputs ==
  {Rep(n1, v1) \o Rep(n2, v2) :
     n1 \in 1..MaxRun, n2 \in 0..MaxTail, v1 \in LogitVals, v2 \in LogitVals}

SoftmaxOff ==
  /\ sm_pc = "off" /\ sm_inputs = <<>> /\ lut0 = <<>> /\ lut1 = <<>>
  /\ max_val = 0 /\ exp_vals = <<>> /\ sum_acc = 0 /\ ln_offset = 0
  /\ sm_outputs = <<>>

SoftmaxInit ==
  /\ sm_pc = "EXP_ACC"
  /\ sm_inputs \in SoftmaxInputs
  /\ \E p \in LutPairs : lut0 = p[1] /\ lut1 = p[2]
  /\ max_val = 0 /\ exp_vals = <<>> /\ sum_acc = 0 /\ ln_offset = 0
  /\ sm_outputs = <<>>

\* the sum is cut to its low 24 bits instead of clamped
ExpAcc_wrap ==
  /\ sm_pc = "EXP_ACC"
  /\ LET mx == SeqMax(sm_inputs)
         ev == [i \in 1..Len(sm_inputs) |->
                  bipartite_exp(DistQ47(mx, sm_inputs[i]), lut0, lut1)]
     IN  /\ max_val' = mx
         /\ exp_vals' = ev
         /\ sum_acc' = LowBits(SeqSum(ev), 24)
  /\ sm_pc' = "LN_SUM"
  /\ UNCHANGED <<sm_inputs, lut0, lut1, ln_offset, sm_outputs>>
  /\ UNCHANGED notSm

\* lines 78-94: max, per-element exp, saturated sum
ExpAcc ==
  /\ sm_pc = "EXP_ACC"
  /\ LET mx == SeqMax(sm_inputs)
         ev == [i \in 1..Len(sm_inputs) |->
                  bipartite_exp(DistQ47(mx, sm_inputs[i]), lut0, lut1)]
     IN  /\ max_val' = mx
         /\ exp_vals' = ev
         /\ sum_acc' = Min2(SeqSum(ev), 16777215)
  /\ sm_pc' = "LN_SUM"
  /\ UNCHANGED <<sm_inputs, lut0, lut1, ln_offset, sm_outputs>>
  /\ UNCHANGED notSm

\* lines 96-111
LnSum ==
  /\ sm_pc = "LN_SUM"
  /\ ln_offset' = LnOffset(sum_acc)
  /\ sm_pc' = "NORM"
  /\ UNCHANGED <<sm_inputs, lut0, lut1, max_val, exp_vals, sum_acc, sm_outputs>>
  /\ UNCHANGED notSm

\* lines 113-132
Norm ==
  /\ sm_pc = "NORM"
  /\ sm_outputs' = [i \in 1..Len(sm_inputs) |->
                      bipartite_exp(NormDist(max_val, sm_inputs[i], ln_offset),
                                    lut0, lut1)]
  /\ sm_pc' = "DONE"
  /\ UNCHANGED <<sm_inputs, lut0, lut1, max_val, exp_vals, sum_acc, ln_offset>>
  /\ UNCHANGED notSm

\* runs with flat tables: every lut0 entry is v and lut1 is zero, so each of
\* the n equal logits contributes v and the sum is n * v before saturation
MaxFlat == 40

\* entries with the leading one at bit j, every mantissa, both ends of its range
MantVals(lo, hi) ==
  {Pow2(j) + s * Pow2(j - 4) + o * (Pow2(j - 4) - 1) :
     j \in lo..hi, s \in 0..15, o \in {0, 1}}

\* <<n, v>>: short runs for the sums below 2^17, 256 elements for the sums
\* up to 2^23, and 511..513 elements around the saturation of the sum
FlatRuns ==
  ({1, 3} \X ((0..MaxFlat) \cup MantVals(4, 14) \cup {32768}))
    \cup ({256} \X (MantVals(8, 14) \cup {32768}))
    \cup ({511, 512, 513} \X {0, 1, 32767, 32768})

SoftmaxFlatInit ==
  /\ sm_pc = "EXP_ACC"
  /\ \E r \in FlatRuns :
       /\ sm_inputs = Rep(r[1], 0)
       /\ lut0 = Rep(256, r[2])
  /\ lut1 = ZeroLut
  /\ max_val = 0 /\ exp_vals = <<>> /\ sum_acc = 0 /\ ln_offset = 0
  /\ sm_outputs = <<>>

\* table images load_lut can return: lut0 unsigned 16-bit, lut1 signed 16-bit.
\* Beside the images the kernel is run with: the largest entries, the
\* smallest entries, and a pair whose entries tell the addresses apart
AddrLut0 == [i \in 1..256 |-> 100 * (i - 1)]

AddrLut1 == [i \in 1..256 |-> (i - 1) - 128]

LoadableLutPairs ==
  LutPairs \cup {<<Rep(256, 65535), Rep(256, 32767)>>,
                 <<Rep(256, 0), Rep(256, -32768)>>,
                 <<AddrLut0, AddrLut1>>}

NoExp == [addr |-> bipartite_addr(0), result |-> 0]

BipartiteOff ==
  /\ be_pc = "off" /\ be_d = 0 /\ be_l0 = <<>> /\ be_l1 = <<>> /\ be_res = NoExp

\* a call bipartite_exp(d_q47, lut0, lut1) with an 11-bit distance or the clip
BipartiteInit ==
  /\ be_pc = "call"
  /\ be_d \in 0..D_CLIP
  /\ \E p \in LoadableLutPairs : be_l0 = p[1] /\ be_l1 = p[2]
  /\ be_res = NoExp

BipartiteCall ==
  /\ be_pc = "call"
  /\ be_res' = [addr |-> bipartite_addr(be_d),
                result |-> bipartite_exp(be_d, be_l0, be_l1)]
  /\ be_pc' = "done"
  /\ UNCHANGED <<be_d, be_l0, be_l1>>
  /\ UNCHANGED notBe

(***************************************************************************)
(* Wide integers.  Python integers are unbounded; values that need more    *)
(* than 32 bits are kept as two limbs, [hi, lo] standing for               *)
(* hi * LIMB + lo with 0 <= lo < LIMB.                                     *)
(***************************************************************************)
LIMB == 4096

Wide(x) == [hi |-> x \div LIMB, lo |-> x % LIMB]

\* a * b as a wide integer, for |b| < 2^19 and |a \div LIMB| * |b| < 2^31
WMul(a, b) ==
  LET p == (a % LIMB) * b
  IN  [hi |-> (a \div LIMB) * b + (p \div LIMB), lo |-> p % LIMB]

\* w * b, for w.hi * b within 32 bits
WScale(w, b) ==
  LET p == w.lo * b
  IN  [hi |-> w.hi * b + (p \div LIMB), lo |-> p % LIMB]

\* floor(w / n) for a small positive n
WDiv(w, n) ==
  [hi |-> w.hi \div n, lo |-> ((w.hi % n) * LIMB + w.lo) \div n]

WLeq(x, y) == x.hi < y.hi \/ (x.hi = y.hi /\ x.lo <= y.lo)

(***************************************************************************)
(* Inverse square root table (gen_inv_sqrt_lut.py)                         *)
(***************************************************************************)
\* 2^40 = (32768 * 16)^2: val * 32768 = 2^19 / sqrt(256 * radicand)
TwoTo40 == [hi |-> Pow2(28), lo |-> 0]

\* (2q - 1)^2 * r <= 2^40, i.e. q - 1/2 <= 2^19 / sqrt(r)
NotAbove(q, r) == WLeq(WMul(2 * q - 1, 2 * q - 1), WDiv(TwoTo40, r))

\* the largest q in lo..hi-1 with NotAbove(q, r), given NotAbove(lo, r), ~NotAbove(hi, r)
RECURSIVE Bisect(_, _, _)
Bisect(lo, hi, r) ==
  IF hi - lo <= 1 THEN lo
  ELSE LET mid == (lo + hi) \div 2
       IN  IF NotAbove(mid, r) THEN Bisect(mid, hi, r) ELSE Bisect(lo, mid, r)

\* round(2^19 / sqrt(r)) for 256 <= r <= 1022: the value is never a tie
RoundInvSqrt(r) == Bisect(0, 65537, r)

\* int(2^19 / sqrt(r)): truncation in place of round (mutant)
LutEntry_trunc(i) ==
  LET k_lsb == Bit(i, 8)
      m     == LowBits(i, 8)
      r     == IF k_lsb = 0 THEN 256 + m ELSE 2 * (256 + m)
      q     == RoundInvSqrt(r)
  IN  Min2(IF WLeq(WMul(2 * q, 2 * q), WDiv(TwoTo40, r)) THEN q ELSE q - 1, 65535)

\* one entry of generate_lut: normalized = r / 256 with r = 256 + m, doubled for odd k
LutEntry(i) ==
  LET k_lsb == Bit(i, 8)
      m     == LowBits(i, 8)
      r     == IF k_lsb = 0 THEN 256 + m ELSE 2 * (256 + m)
      q     == RoundInvSqrt(r)
  IN  Min2(q, 65535)

generate_lut == [i \in 1..512 |-> LutEntry(i - 1)]

(***************************************************************************)
(* Hex memory image: one value per line, four lowercase hex digits.  A     *)
(* line is the sequence of its digit values.                               *)
(***************************************************************************)
RECURSIVE HexDigits(_)
HexDigits(v) == IF v < 16 THEN <<v>> ELSE Append(HexDigits(v \div 16), v % 16)

\* f"{val:04x}"
Hex04(v) ==
  LET ds == HexDigits(v)
  IN  IF Len(ds) >= 4 THEN ds ELSE Rep(4 - Len(ds), 0) \o ds

\* int(line, 16)
RECURSIVE ParseHex(_)
ParseHex(ds) ==
  IF ds = <<>> THEN 0
  ELSE 16 * ParseHex(SubSeq(ds, 1, Len(ds) - 1)) + ds[Len(ds)]

(***************************************************************************)
(* Inverse square root kernel (LOD-LUT-Shift)                              *)
(***************************************************************************)
D_W == 14

ISQRT_DW == 17

NoLookup == [k |-> 0, mantissa |-> 0, lut_addr |-> 0, result |-> 65535]

\* the mantissa is always taken from bit 5 up, as for the width 14
golden_inv_sqrt_fixedshift(d, lut, dw) ==
  IF d = 0 THEN NoLookup
  ELSE LET ones     == {i \in 0..(dw - 1) : Bit(d, i) = 1}
           k        == IF ones = {} THEN 0 ELSE SetMax(ones)
           d_norm   == LowBits(Shl(d, (dw - 1) - k), dw)
           mantissa == LowBits(Shr(d_norm, 5), 8)
           lut_addr == Shl(LowBits(k, 1), 8) + mantissa
       IN  [k |-> k, mantissa |-> mantissa, lut_addr |-> lut_addr,
            result |-> Shr(lut[lut_addr + 1], Shr(k, 1))]

\* the table half is not selected by k's low bit (mutant)
golden_inv_sqrt_noparity(d, lut, dw) ==
  IF d = 0 THEN NoLookup
  ELSE LET ones     == {i \in 0..(dw - 1) : Bit(d, i) = 1}
           k        == IF ones = {} THEN 0 ELSE SetMax(ones)
           d_norm   == LowBits(Shl(d, (dw - 1) - k), dw)
           mantissa == LowBits(Shr(d_norm, dw - 9), 8)
       IN  [k |-> k, mantissa |-> mantissa, lut_addr |-> mantissa,
            result |-> Shr(lut[mantissa + 1], Shr(k, 1))]

\* the mantissa is taken one bit too low (mutant)
golden_inv_sqrt_lowmant(d, lut, dw) ==
  IF d = 0 THEN NoLookup
  ELSE LET ones     == {i \in 0..(dw - 1) : Bit(d, i) = 1}
           k        == IF ones = {} THEN 0 ELSE SetMax(ones)
           d_norm   == LowBits(Shl(d, (dw - 1) - k), dw)
           mantissa == LowBits(Shr(d_norm, dw - 10), 8)
           lut_addr == Shl(LowBits(k, 1), 8) + mantissa
       IN  [k |-> k, mantissa |-> mantissa, lut_addr |-> lut_addr,
            result |-> Shr(lut[lut_addr + 1], Shr(k, 1))]

\* the barrel shift is by k, not by k >> 1 (mutant)
golden_inv_sqrt_fullshift(d, lut, dw) ==
  IF d = 0 THEN NoLookup
  ELSE LET ones     == {i \in 0..(dw - 1) : Bit(d, i) = 1}
           k        == IF ones = {} THEN 0 ELSE SetMax(ones)
           d_norm   == LowBits(Shl(d, (dw - 1) - k), dw)
           mantissa == LowBits(Shr(d_norm, dw - 9), 8)
           lut_addr == Shl(LowBits(k, 1), 8) + mantissa
       IN  [k |-> k, mantissa |-> mantissa, lut_addr |-> lut_addr,
            result |-> Shr(lut[lut_addr + 1], k)]

\* golden_inv_sqrt(d, lut) for the width dw (D_W or ISQRT_DW) of the script;
\* the record keeps the locals k, mantissa, lut_addr beside the result
golden_inv_sqrt(d, lut, dw) ==
  IF d = 0 THEN NoLookup
  ELSE LET ones       == {i \in 0..(dw - 1) : Bit(d, i) = 1}
           k          == IF ones = {} THEN 0 ELSE SetMax(ones)
           norm_shift == (dw - 1) - k
           d_norm     == LowBits(Shl(d, norm_shift), dw)
           mantissa   == LowBits(Shr(d_norm, dw - 9), 8)
           lut_addr   == Shl(LowBits(k, 1), 8) + mantissa
           lut_out    == lut[lut_addr + 1]
       IN  [k |-> k, mantissa |-> mantissa, lut_addr |-> lut_addr,
            result |-> Shr(lut_out, Shr(k, 1))]

InvSqrtOff ==
  /\ isq_pc = "off" /\ hex_file = <<>> /\ isq_lut = <<>> /\ isq_dw = 0
  /\ isq_d = 0 /\ isq_out = NoLookup /\ isq_prev = <<>>

InvSqrtInit ==
  /\ isq_pc = "gen" /\ hex_file = <<>> /\ isq_lut = <<>>
  /\ isq_dw \in {D_W, ISQRT_DW}
  /\ isq_d = 0 /\ isq_out = NoLookup /\ isq_prev = <<>>

\* gen_inv_sqrt_lut.main: write inv_sqrt_lut.hex
GenLutMain ==
  /\ isq_pc = "gen"
  /\ hex_file' = [i \in 1..Len(generate_lut) |-> Hex04(generate_lut[i])]
  /\ isq_pc' = "load"
  /\ UNCHANGED <<isq_lut, isq_dw, isq_d, isq_out, isq_prev>>
  /\ UNCHANGED notIsq

\* load_lut: read the table back
LoadLut ==
  /\ isq_pc = "load"
  /\ isq_lut' = [i \in 1..Len(hex_file) |-> ParseHex(hex_file[i])]
  /\ isq_pc' = "ready"
  /\ UNCHANGED <<hex_file, isq_dw, isq_d, isq_out, isq_prev>>
  /\ UNCHANGED notIsq

\* the inputs the log feeds after d: the next one and its double
NextInputs(d, dw) == {x \in {d + 1, 2 * d} : x > d /\ x < Pow2(dw)}

\* one evaluation of golden_inv_sqrt for a logged input d of the width; isq_prev
\* keeps the input and result of the evaluation before it
InvSqrtCall ==
  /\ isq_pc \in {"ready", "run"}
  /\ \E d \in (IF isq_pc = "ready" THEN 0..(Pow2(isq_dw) - 1)
                                   ELSE NextInputs(isq_d, isq_dw)) :
        /\ isq_d' = d
        /\ isq_out' = golden_inv_sqrt(d, isq_lut, isq_dw)
  /\ isq_prev' = IF isq_pc = "run" THEN <<[d |-> isq_d, result |-> isq_out.result]>>
                                   ELSE <<>>
  /\ isq_pc' = "run"
  /\ UNCHANGED <<hex_file, isq_lut, isq_dw>>
  /\ UNCHANGED notIsq

(***************************************************************************)
(* LayerNorm kernel (validate_layernorm.py)                                *)
(***************************************************************************)
DIM == 128

\* to_signed8 left out: the byte is used unsigned (mutant)
to_signed8_unsigned(b) == b

\* to_signed8(b)
to_signed8(b) == IF b >= 128 THEN b - 256 ELSE b

\* full_prod is kept in 23 bits
Signed33_23bit(x) ==
  LET m == LowBits(x, 23)
  IN  IF m >= Pow2(22) THEN m - Pow2(23) ELSE m

\* x & 0x1FFFFFFFF, then minus 2^33 from 2^32 on: on the two limbs of x
Signed33(x) ==
  LET w == Wide(x)
      h == w.hi % Pow2(33 - 12)
  IN  (IF h >= Pow2(32 - 12) THEN h - Pow2(33 - 12) ELSE h) * LIMB + w.lo

\* x & 0x3FFFF, then minus 2^18 from 2^17 on
Signed18(x) ==
  LET m == LowBits(x, 18)
  IN  IF m >= Pow2(17) THEN m - Pow2(18) ELSE m

\* the product is shifted without the rounding constant (mutant)
RoundShift15_trunc(full_prod) == Shr(full_prod, 15)

\* (full_prod + 16384) >> 15
RoundShift15(full_prod) == Shr(full_prod + 16384, 15)

\* only the lower bound is applied (mutant)
Clamp8_lower(x) == Max2(-128, x)

\* max(-128, min(127, x))
Clamp8(x) == Max2(-128, Min2(127, x))

\* Pass 3 for one channel; rounded is the subexpression (full_prod + 16384) >> 15
LnChannel(diff, inv, gb, bb) ==
  LET g         == to_signed8(gb)
      b         == to_signed8(bb)
      full_prod == Signed33(diff * inv * g)
      rounded   == RoundShift15(full_prod)
      biased    == Signed18(rounded + b)
  IN  [full_prod |-> full_prod, rounded |-> rounded, biased |-> biased,
       y |-> Clamp8(biased)]

\* the table as load_hex reads it from inv_sqrt_lut.hex
LoadedLut == [i \in 1..Len(generate_lut) |-> ParseHex(Hex04(generate_lut[i]))]

\* input vectors: the first n entries v1 and the rest v2, constants, the ramps
\* and the alternating pattern of TESTS
MaxSplit == 2

LnVals == {-128, -105, -50, -1, 0, 1, 11, 42, 50, 127}

SplitVec(n, v1, v2) == [i \in 1..DIM |-> IF i <= n THEN v1 ELSE v2]

RampVec(start) == [i \in 1..DIM |-> start + (i - 1)]

AltVec(a) == [i \in 1..DIM |-> IF (i - 1) % 2 = 0 THEN a ELSE -a]

\* the two ends of the int8 range in turn: the largest variance
EndsVec == [i \in 1..DIM |-> IF (i - 1) % 2 = 0 THEN -128 ELSE 127]

LnInputs ==
  {SplitVec(n, v1, v2) : n \in 0..MaxSplit, v1 \in LnVals, v2 \in LnVals}
    \cup {Rep(DIM, c) : c \in -128..127}
    \cup {RampVec(s) : s \in {-128, -64, 0}}
    \cup {AltVec(a) : a \in {1, 50, 127}}
    \cup {EndsVec}

\* parameter bytes of ln_params.hex: start, start + step, ... modulo 256
ByteRamp(start, step) == [i \in 1..DIM |-> (start + step * (i - 1)) % 256]

GammaVecs == {ByteRamp(1, 0), ByteRamp(255, 0), ByteRamp(0, 1), ByteRamp(128, 1)}

BetaVecs == {ByteRamp(0, 0), ByteRamp(127, 0), ByteRamp(0, 1), ByteRamp(128, 1)}

LayerNormOff ==
  /\ ln_pc = "off" /\ ln_inputs = <<>> /\ gamma_bytes = <<>> /\ beta_bytes = <<>>
  /\ isqrt_lut = <<>> /\ mean = 0 /\ centered = <<>> /\ var_acc = 0
  /\ inv_std = 0 /\ ln_chan = <<>> /\ ln_outputs = <<>>

LayerNormInit ==
  /\ ln_pc = "MEAN_ACC"
  /\ ln_inputs \in LnInputs
  /\ gamma_bytes \in GammaVecs
  /\ beta_bytes \in BetaVecs
  /\ isqrt_lut = LoadedLut
  /\ mean = 0 /\ centered = <<>> /\ var_acc = 0
  /\ inv_std = 0 /\ ln_chan = <<>> /\ ln_outputs = <<>>

\* Pass 1: mean = sum(x) >> 7
MeanAcc ==
  /\ ln_pc = "MEAN_ACC"
  /\ mean' = Shr(SeqSum(ln_inputs), 7)
  /\ ln_pc' = "VAR_ACC"
  /\ UNCHANGED <<ln_inputs, gamma_bytes, beta_bytes, isqrt_lut, centered, var_acc,
                 inv_std, ln_chan, ln_outputs>>
  /\ UNCHANGED notLn

\* Pass 2: center and accumulate the variance
VarAcc ==
  /\ ln_pc = "VAR_ACC"
  /\ LET c == [i \in 1..Len(ln_inputs) |-> ln_inputs[i] - mean]
     IN  /\ centered' = c
         /\ var_acc' = SeqSum([i \in 1..Len(c) |-> c[i] * c[i]])
  /\ ln_pc' = "INV_SQRT"
  /\ UNCHANGED <<ln_inputs, gamma_bytes, beta_bytes, isqrt_lut, mean, inv_std,
                 ln_chan, ln_outputs>>
  /\ UNCHANGED notLn

\* inv_std = golden_inv_sqrt(var_acc >> 7, isqrt_lut), the copy with ISQRT_DW
InvStd ==
  /\ ln_pc = "INV_SQRT"
  /\ inv_std' = golden_inv_sqrt(Shr(var_acc, 7), isqrt_lut, ISQRT_DW).result
  /\ ln_pc' = "NORM"
  /\ UNCHANGED <<ln_inputs, gamma_bytes, beta_bytes, isqrt_lut, mean, centered,
                 var_acc, ln_chan, ln_outputs>>
  /\ UNCHANGED notLn

\* Pass 3: multiply, round, bias and clamp every channel
LnNorm ==
  /\ ln_pc = "NORM"
  /\ LET ch == [i \in 1..DIM |->
                  LnChannel(centered[i], inv_std, gamma_bytes[i], beta_bytes[i])]
     IN  /\ ln_chan' = ch
         /\ ln_outputs' = [i \in 1..DIM |-> ch[i].y]
  /\ ln_pc' = "DONE"
  /\ UNCHANGED <<ln_inputs, gamma_bytes, beta_bytes, isqrt_lut, mean, centered,
                 var_acc, inv_std>>
  /\ UNCHANGED notLn

(***************************************************************************)
(* Requantization kernel (validate_requant.py)                             *)
(***************************************************************************)
\* w & ((1 << bits) - 1), bits >= 12
WMask(w, bits) == [hi |-> w.hi % Pow2(bits - 12), lo |-> w.lo]

\* w >= 1 << e, e >= 12
WGeqPow2(w, e) == w.hi >= Pow2(e - 12)

\* w - (1 << e), e >= 12
WSubPow2(w, e) == [hi |-> w.hi - Pow2(e - 12), lo |-> w.lo]

\* w >> s
WShr(w, s) ==
  IF s >= 12 THEN Wide(Shr(w.hi, s - 12))
  ELSE [hi |-> Shr(w.hi, s), lo |-> LowBits(w.hi, s) * Pow2(12 - s) + Shr(w.lo, s)]

\* the low byte is kept instead of saturating (mutant)
WClamp8_wrap(w) == to_signed8(w.lo % 256)

\* max(-128, min(127, w))
WClamp8(w) ==
  IF w.hi >= 1 THEN 127
  ELSE IF w.hi <= -2 THEN -128
  ELSE Clamp8(w.hi * LIMB + w.lo)

\* DUT configurations of tb_requant
DUTS == {[acc_w |-> 24, scale_w |-> 16, shift |-> 22],
         [acc_w |-> 19, scale_w |-> 16, shift |-> 19]}

\* the product is kept to one bit fewer than acc_w + scale_w
golden_requant_narrow(a, s, sh, aw, sw) ==
  LET prod_w  == aw + sw - 1
      masked  == WMask(WMul(a, s), prod_w)
      product == IF WGeqPow2(masked, prod_w - 1) THEN WSubPow2(masked, prod_w)
                                                 ELSE masked
      shifted == WShr(product, sh)
      clamped == WClamp8(shifted)
  IN  [product |-> product, shifted |-> shifted, clamped |-> clamped,
       out |-> LowBits(clamped, 8)]

\* the masked product is not reinterpreted as two's complement (mutant)
golden_requant_unsigned(a, s, sh, aw, sw) ==
  LET prod_w  == aw + sw
      product == WMask(WMul(a, s), prod_w)
      shifted == WShr(product, sh)
      clamped == WClamp8(shifted)
  IN  [product |-> product, shifted |-> shifted, clamped |-> clamped,
       out |-> LowBits(clamped, 8)]

\* golden_requant(acc, scale, shift, acc_w, scale_w); the record keeps the
\* locals product (after the sign step), shifted, clamped beside the byte
golden_requant(a, s, sh, aw, sw) ==
  LET prod_w  == aw + sw
      masked  == WMask(WMul(a, s), prod_w)
      product == IF WGeqPow2(masked, prod_w - 1) THEN WSubPow2(masked, prod_w)
                                                 ELSE masked
      shifted == WShr(product, sh)
      clamped == WClamp8(shifted)
  IN  [product |-> product, shifted |-> shifted, clamped |-> clamped,
       out |-> LowBits(clamped, 8)]

\* logged accumulators of a DUT: the ends of its signed range, values around
\* zero, and steps of the size that moves the output at scale 2^15
MaxStep == 130

AccVals(cfg) ==
  LET top == Pow2(cfg.acc_w - 1)
  IN  {-top, 1 - top, top - 1, top - 2, -4097, -4096, -1, 0, 1, 4095, 4096}
        \cup {v * Pow2(cfg.shift - 15) + o : v \in (-MaxStep)..MaxStep, o \in {-1, 0}}

\* logged scales: unsigned scale_w-bit
ScaleVals == {0, 1, 255, 256, 12345, 32767, 32768, 65535}

NoRequant == [product |-> Wide(0), shifted |-> Wide(0), clamped |-> 0, out |-> 0]

RequantOff ==
  /\ rq_pc = "off" /\ rq_cfg = [acc_w |-> 0, scale_w |-> 0, shift |-> 0]
  /\ acc = 0 /\ scale = 0 /\ rq_res = NoRequant

RequantInit ==
  /\ rq_pc = "call"
  /\ rq_cfg \in DUTS
  /\ acc \in AccVals(rq_cfg)
  /\ scale \in ScaleVals
  /\ rq_res = NoRequant

\* gold_byte = golden_requant(e["acc"], e["scale"], cfg["shift"], ...)
RequantCall ==
  /\ rq_pc = "call"
  /\ rq_res' = golden_requant(acc, scale, rq_cfg.shift, rq_cfg.acc_w, rq_cfg.scale_w)
  /\ rq_pc' = "done"
  /\ UNCHANGED <<rq_cfg, acc, scale>>
  /\ UNCHANGED notRq

\* golden_requant takes shift, acc_w and scale_w as arguments: calls of the
\* function outside the two DUT rows, at acc_w = 24 and scale_w = 16
ShiftVals == {0, 7, 22}

AccEnds(aw) ==
  LET top == Pow2(aw - 1)
  IN  {-top, 1 - top, -129, -128, -1, 0, 1, 127, 128, top - 2, top - 1}

RequantArgsInit ==
  /\ rq_pc = "call"
  /\ rq_cfg \in {[acc_w |-> 24, scale_w |-> 16, shift |-> sh] : sh \in ShiftVals}
  /\ acc \in AccEnds(rq_cfg.acc_w)
  /\ scale \in ScaleVals
  /\ rq_res = NoRequant

(***************************************************************************)
(* MatVec kernel (validate_matvec.py)                                      *)
(***************************************************************************)
\* rows and columns of blocks.0.attn.proj.weight: range(128)
MV_DIM == 128

as_signed8(b) == IF b >= 128 THEN b - 256 ELSE b

clamp8(v) == IF v > 127 THEN 127 ELSE IF v < -128 THEN -128 ELSE v

\* the accumulator is 14 bits wide
mask24_14bit(v) ==
  LET u == LowBits(v, 14)
  IN  IF u >= Pow2(13) THEN u - Pow2(14) ELSE u

\* wrap to 24-bit signed
mask24(v) ==
  LET u == LowBits(v, 24)
  IN  IF u >= 8388608 THEN u - 16777216 ELSE u

\* one pass of the column loop: acc = mask24(acc + as_signed8(raw[i]))
Mac(a, raw, i) == mask24(a + as_signed8(raw[i + 1]))

\* the column loop over raw[lo..hi], left to right, one Mac per element; the
\* halving keeps the evaluation shallow, and the comparison has the
\* accumulator of the first half computed before the second half starts
RECURSIVE MacRange(_, _, _, _)
MacRange(a, raw, lo, hi) ==
  IF lo = hi THEN Mac(a, raw, lo)
  ELSE LET mid  == (lo + hi) \div 2
           left == MacRange(a, raw, lo, mid)
       IN  IF left = left THEN MacRange(left, raw, mid + 1, hi) ELSE left

\* acc of a row after its 128 columns
RowAcc(raw, row) == MacRange(0, raw, row * MV_DIM, row * MV_DIM + MV_DIM - 1)

\* ref_int8_matvec: acc of a row with the full-precision accumulator
RefRowAcc(raw, row) ==
  SeqSum([c \in 1..MV_DIM |-> as_signed8(raw[row * MV_DIM + c])])

\* the shift rounds toward zero (mutant)
RowOut_trunc(a) == clamp8(IF a < 0 THEN -((-a) \div 128) ELSE a \div 128)

\* out.append(clamp8(acc >> 7))
RowOut(a) == clamp8(Shr(a, 7))

\* data bytes of the weight tensor, row-major: constant matrices and
\* matrices whose bytes vary with row and column
ByteMatrix(a, b, c) ==
  [i \in 1..(MV_DIM * MV_DIM) |->
     (a + b * ((i - 1) \div MV_DIM) + c * ((i - 1) % MV_DIM)) % 256]

MixedMatrix(a, b, c) ==
  [i \in 1..(MV_DIM * MV_DIM) |->
     LET r == (i - 1) \div MV_DIM
         k == (i - 1) % MV_DIM
     IN  (a + ((b * r + c * k * k) % 97)) % 256]

MatrixData ==
  {ByteMatrix(127, 0, 0), ByteMatrix(128, 0, 0), ByteMatrix(0, 2, 0),
   ByteMatrix(5, 7, 13), MixedMatrix(77, 3, 13)}

MatVecOff ==
  /\ mv_pc = "off" /\ mv_raw = <<>> /\ mv_row = 0 /\ mv_acc = 0 /\ mv_out = <<>>
  /\ mv_racc = 0 /\ mv_ref = <<>>

MatVecInit ==
  /\ mv_pc = "rows" /\ mv_raw \in MatrixData
  /\ mv_row = 0 /\ mv_acc = 0 /\ mv_out = <<>>
  /\ mv_racc = 0 /\ mv_ref = <<>>

\* one pass of the row loop of golden_matvec and the pass of the row loop
\* of ref_int8_matvec for the same row
MatVecRow ==
  /\ mv_pc = "rows"
  /\ mv_acc' = RowAcc(mv_raw, mv_row)
  /\ mv_out' = Append(mv_out, RowOut(mv_acc'))
  /\ mv_racc' = RefRowAcc(mv_raw, mv_row)
  /\ mv_ref' = Append(mv_ref, RowOut(mv_racc'))
  /\ mv_row' = mv_row + 1
  /\ mv_pc' = IF mv_row + 1 = MV_DIM THEN "done" ELSE "rows"
  /\ UNCHANGED mv_raw
  /\ UNCHANGED notMv

(***************************************************************************)
(* Embedding combiner (validate_embedding.py)                              *)
(***************************************************************************)
\* the sum is masked to 8 bits (mutant)
golden_byte_8bit(t_unsigned, p_unsigned) ==
  LET t  == to_signed8(t_unsigned)
      p  == to_signed8(p_unsigned)
      s9 == LowBits(t + p, 8)
  IN  [s9 |-> s9, out |-> LowBits(Shr(s9, 1), 8)]

\* golden_byte(t_unsigned, p_unsigned); the record keeps s9 beside the byte
golden_byte(t_unsigned, p_unsigned) ==
  LET t  == to_signed8(t_unsigned)
      p  == to_signed8(p_unsigned)
      s9 == LowBits(t + p, 9)
  IN  [s9 |-> s9, out |-> LowBits(Shr(s9, 1), 8)]

NoByte == [s9 |-> 0, out |-> 0]

EmbeddingOff == em_pc = "off" /\ em_t = 0 /\ em_p = 0 /\ em_res = NoByte

\* bytes of the token and position tables, as load_hex returns them
EmbeddingInit ==
  /\ em_pc = "call" /\ em_t \in 0..255 /\ em_p \in 0..255 /\ em_res = NoByte

EmbeddingCall ==
  /\ em_pc = "call"
  /\ em_res' = golden_byte(em_t, em_p)
  /\ em_pc' = "done"
  /\ UNCHANGED <<em_t, em_p>>
  /\ UNCHANGED notEm

(***************************************************************************)
(* KV cache.  The cache itself is RTL; validate_kv_cache.py holds the test *)
(* cases of tb_kv_cache (EXPECTED).  The address function and the memory   *)
(* follow the specification: (layer, kv, head, position, dim) -> slot over *)
(* layers x 2 x heads x max_positions x head_dim slots, taken row-major.   *)
(***************************************************************************)
KV_LAYERS == 4

KV_HEADS == 8

KV_MAX_POS == 256

KV_HEAD_DIM == 16

KvSlots == KV_LAYERS * 2 * KV_HEADS * KV_MAX_POS * KV_HEAD_DIM

KvCoords ==
  [l : 0..(KV_LAYERS - 1), kv : 0..1, h : 0..(KV_HEADS - 1),
   p : 0..(KV_MAX_POS - 1), d : 0..(KV_HEAD_DIM - 1)]

\* the head is left out of the address (mutant)
KvAddr_nohead(c) ==
  ((c.l * 2 + c.kv) * KV_MAX_POS + c.p) * KV_HEAD_DIM + c.d

\* the K/V selector is left out of the address (mutant)
KvAddr_nokv(c) ==
  ((c.l * KV_HEADS + c.h) * KV_MAX_POS + c.p) * KV_HEAD_DIM + c.d

\* (layer, kv, head, position, dim) -> slot
KvAddr(c) ==
  (((c.l * 2 + c.kv) * KV_HEADS + c.h) * KV_MAX_POS + c.p) * KV_HEAD_DIM + c.d

Coord(l, kv, h, p, d) == [l |-> l, kv |-> kv, h |-> h, p |-> p, d |-> d]

\* EXPECTED: (test_num, layer, kv, head, pos, dim, expected_byte); of the 16
\* dims of test 1 the first and the last are kept
EXPECTED ==
  {<<0, Coord(0, 0, 0, 0, 0), 165>>,
   <<1, Coord(1, 1, 3, 42, 0), 10>>, <<1, Coord(1, 1, 3, 42, 15), 25>>,
   <<2, Coord(0, 0, 0, 5, 0), 17>>, <<2, Coord(0, 0, 1, 5, 0), 34>>,
   <<3, Coord(2, 0, 5, 100, 7), 170>>, <<3, Coord(2, 1, 5, 100, 7), 85>>,
   <<4, Coord(0, 0, 7, 200, 15), 255>>, <<4, Coord(3, 0, 7, 200, 15), 1>>}

\* number of writes in a run
MaxWrites == 3

NoRead == [c |-> Coord(0, 0, 0, 0, 0), out |-> -1]

KvCacheOff ==
  /\ kv_pc = "off" /\ kv_coord = Coord(0, 0, 0, 0, 0) /\ kv_slot = 0
  /\ kv_mem = <<>> /\ kv_log = <<>> /\ kv_rd = NoRead

\* the address function alone, over every coordinate of the configuration
KvAddrInit ==
  /\ kv_pc = "addr" /\ kv_coord \in KvCoords /\ kv_slot = 0
  /\ kv_mem = <<>> /\ kv_log = <<>> /\ kv_rd = NoRead

KvAddrCall ==
  /\ kv_pc = "addr"
  /\ kv_slot' = KvAddr(kv_coord)
  /\ kv_pc' = "addressed"
  /\ UNCHANGED <<kv_coord, kv_mem, kv_log, kv_rd>>
  /\ UNCHANGED notKv

\* the cache under test: an empty memory, then writes and reads
KvCacheInit ==
  /\ kv_pc = "idle" /\ kv_coord = Coord(0, 0, 0, 0, 0) /\ kv_slot = 0
  /\ kv_mem = <<>> /\ kv_log = <<>> /\ kv_rd = NoRead

\* the memory as a function from the written slots to their bytes
Store(mem, slot, v) ==
  [s \in (DOMAIN mem) \cup {slot} |-> IF s = slot THEN v ELSE mem[s]]

\* a write of the testbench: the byte of a test case, or its complement when
\* the coordinate is written again
KvWrite ==
  /\ kv_pc = "idle" /\ Len(kv_log) < MaxWrites
  /\ \E e \in EXPECTED, v \in 0..255 :
       /\ v \in {e[3], 255 - e[3]}
       /\ kv_coord' = e[2]
       /\ kv_slot' = KvAddr(e[2])
       /\ kv_mem' = Store(kv_mem, KvAddr(e[2]), v)
       /\ kv_log' = Append(kv_log, <<e[2], v>>)
  /\ kv_rd' = NoRead
  /\ UNCHANGED kv_pc
  /\ UNCHANGED notKv

\* a read of a coordinate written before: the OUT=xx of the log
KvRead ==
  /\ kv_pc = "idle"
  /\ \E i \in 1..Len(kv_log) :
       LET c == kv_log[i][1]
       IN  /\ kv_coord' = c
           /\ kv_slot' = KvAddr(c)
           /\ kv_rd' = [c |-> c, out |-> kv_mem[KvAddr(c)]]
  /\ UNCHANGED <<kv_pc, kv_mem, kv_log>>
  /\ UNCHANGED notKv

(***************************************************************************)
(* Weight archive: export_weights_int8 (train.py) writes weights_int8.bin, *)
(* extract_weights.py reads it and writes the memory images.  Bytes are    *)
(* numbers 0..255, strings are sequences of ASCII codes.                   *)
(***************************************************************************)
\* b"TFPGA001"
MAGIC == <<84, 70, 80, 71, 65, 48, 48, 49>>

\* struct.pack("<I", n)
PackU32(n) ==
  <<n % 256, (n \div 256) % 256, (n \div 65536) % 256, (n \div 16777216) % 256>>

\* struct.unpack("<I", bs)[0] of four bytes, below 2^31
UnpackU32(bs) == bs[1] + 256 * bs[2] + 65536 * bs[3] + 16777216 * bs[4]

\* struct.unpack("<I", bs)[0] of four bytes as a wide integer (any 32 bits)
UnpackU32W(bs) ==
  [hi |-> bs[4] * 4096 + bs[3] * 16 + bs[2] \div 16,
   lo |-> (bs[2] % 16) * 256 + bs[1]]

\* struct.pack("<f", scale): the float32 with sign s, biased exponent e and
\* fraction m, least significant byte first
PackF32(f) ==
  <<f.m % 256, (f.m \div 256) % 256,
    (f.e % 2) * 128 + f.m \div 65536, f.s * 128 + f.e \div 2>>

\* struct.unpack("<f", bs)[0]
UnpackF32(bs) ==
  [s |-> bs[4] \div 128,
   e |-> (bs[4] % 128) * 2 + bs[3] \div 128,
   m |-> (bs[3] % 128) * 65536 + bs[2] * 256 + bs[1]]

RECURSIVE Product(_)
Product(shape) ==
  IF shape = <<>> THEN 1 ELSE Head(shape) * Product(Tail(shape))

RECURSIVE Concat(_)
Concat(ss) == IF ss = <<>> THEN <<>> ELSE Head(ss) \o Concat(Tail(ss))

\* q.tobytes(): each int8 as its two's-complement byte
ToBytes(q) == [i \in 1..Len(q) |-> LowBits(q[i], 8)]

\* the data is written before the scale
WriteTensor_datafirst(t) ==
  PackU32(Len(t.name)) \o t.name \o PackU32(Len(t.shape))
    \o Concat([i \in 1..Len(t.shape) |-> PackU32(t.shape[i])])
    \o ToBytes(t.data)
    \o PackF32(t.scale)

\* one pass of the writer's loop: name_len, name, ndim, dims, scale, data
WriteTensor(t) ==
  PackU32(Len(t.name)) \o t.name \o PackU32(Len(t.shape))
    \o Concat([i \in 1..Len(t.shape) |-> PackU32(t.shape[i])])
    \o PackF32(t.scale)
    \o ToBytes(t.data)

\* export_weights_int8: magic, count, then the tensors in order
export_weights_int8(T) ==
  MAGIC \o PackU32(Len(T)) \o Concat([i \in 1..Len(T) |-> WriteTensor(T[i])])

\* f.read(n) at offset pos: up to n bytes, fewer at the end of the file
ReadN(b, pos, n) == SubSeq(b, pos + 1, Min2(pos + n, Len(b)))

\* a failed pass: exc is an uncaught exception (struct.error,
\* UnicodeDecodeError), exit the ERROR message followed by sys.exit(1)
Failed(how) == [ok |-> FALSE, how |-> how, pos |-> 0, tensor |-> <<>>]

\* a short read of the data: extract_weights prints ERROR and calls
\* sys.exit(1), parse_bin fails its assert
ShortData(prog) == IF prog = "extract_weights" THEN "exit" ELSE "exc"

\* one pass of the reader's loop at offset pos (extract_weights.py lines
\* 69-96, parse_bin lines 26-42)
ReadTensor(b, pos, index, prog) ==
  LET nlb == ReadN(b, pos, 4)
  IN  IF Len(nlb) # 4 THEN Failed("exc")
      ELSE
  LET nameb == ReadN(b, pos + 4, UnpackU32(nlb))
      p1    == pos + 4 + Len(nameb)
      ndb   == ReadN(b, p1, 4)
  IN  IF \E i \in 1..Len(nameb) : nameb[i] >= 128 THEN Failed("exc")
      ELSE IF Len(ndb) # 4 THEN Failed("exc")
      ELSE
  LET ndim == UnpackU32(ndb)
      dimb == [i \in 1..ndim |-> ReadN(b, p1 + 4 * i, 4)]
      p2   == p1 + 4 + 4 * ndim
      scb  == ReadN(b, p2, 4)
  IN  IF \E i \in 1..ndim : Len(dimb[i]) # 4 THEN Failed("exc")
      ELSE IF Len(scb) # 4 THEN Failed("exc")
      ELSE
  LET shape == [i \in 1..ndim |-> UnpackU32(dimb[i])]
      size  == Product(shape)
      data  == ReadN(b, p2 + 4, size)
  IN  IF Len(data) # size THEN Failed(ShortData(prog))
      ELSE [ok |-> TRUE, how |-> "", pos |-> p2 + 4 + size,
            tensor |-> [index |-> index, name |-> nameb, shape |-> shape,
                        size |-> size, scale |-> UnpackF32(scb),
                        scale_hex |-> UnpackU32W(scb), data |-> data]]

\* n.replace(pat, rep): every occurrence, left to right
RECURSIVE Replace(_, _, _)
Replace(s, pat, rep) ==
  IF Len(s) < Len(pat) THEN s
  ELSE IF SubSeq(s, 1, Len(pat)) = pat
       THEN rep \o Replace(SubSeq(s, Len(pat) + 1, Len(s)), pat, rep)
       ELSE <<Head(s)>> \o Replace(Tail(s), pat, rep)

\* sanitize_name: "ff.net.0." -> "ff_up_", "ff.net.2." -> "ff_down_",
\* "blocks." -> "block", "." -> "_"
sanitize_name(n) ==
  LET n1 == Replace(n, <<102, 102, 46, 110, 101, 116, 46, 48, 46>>,
                    <<102, 102, 95, 117, 112, 95>>)
      n2 == Replace(n1, <<102, 102, 46, 110, 101, 116, 46, 50, 46>>,
                    <<102, 102, 95, 100, 111, 119, 110, 95>>)
      n3 == Replace(n2, <<98, 108, 111, 99, 107, 115, 46>>,
                    <<98, 108, 111, 99, 107>>)
  IN  Replace(n3, <<46>>, <<95>>)

\* "SCALE_" + stem.upper()
verilog_param_name(stem) ==
  <<83, 67, 65, 76, 69, 95>>
    \o [i \in 1..Len(stem) |->
          IF stem[i] \in 97..122 THEN stem[i] - 32 ELSE stem[i]]

\* stem + ".hex"
HexFileName(name) == sanitize_name(name) \o <<46, 104, 101, 120>>

\* f"{byte:02x}": the two hex digits of a byte
Hex02(byte) == <<byte \div 16, byte % 16>>

\* the files on disk: a function from file name to content
PutFile(files, name, content) ==
  [f \in (DOMAIN files) \cup {name} |-> IF f = name THEN content ELSE files[f]]

\* lines 98-104: one hex file per tensor, one line per byte, in tensor order
RECURSIVE WriteHexFiles(_, _)
WriteHexFiles(files, ts) ==
  IF ts = <<>> THEN files
  ELSE WriteHexFiles(
         PutFile(files, HexFileName(Head(ts).name),
                 [j \in 1..Head(ts).size |-> Hex02(Head(ts).data[j])]),
         Tail(ts))

\* hf.read().strip().split("\n"): an empty file gives the one line ""
ReadLines(content) == IF content = <<>> THEN <<<<>>>> ELSE content

\* the last differing line is reported instead of the first
FirstBad_last(lines, t) ==
  CHOOSE j \in 1..Len(lines) :
    /\ ParseHex(lines[j]) # t.data[j]
    /\ \A k \in (j + 1)..Len(lines) : ParseHex(lines[k]) = t.data[k]

\* the index of the first line that does not parse to the tensor's byte
FirstBad(lines, t) ==
  CHOOSE j \in 1..Len(lines) :
    /\ ParseHex(lines[j]) # t.data[j]
    /\ \A k \in 1..(j - 1) : ParseHex(lines[k]) = t.data[k]

\* lines 113-121: the VERIFY FAIL lines printed for one tensor: the two line
\* counts and "continue", or the first differing index with both values and
\* "break"
VerifyReport(files, t) ==
  LET lines == ReadLines(files[HexFileName(t.name)])
  IN  IF Len(lines) # t.size
      THEN <<[kind |-> "count", name |-> t.name, lines |-> Len(lines),
              size |-> t.size]>>
      ELSE IF \E j \in 1..Len(lines) : ParseHex(lines[j]) # t.data[j]
      THEN <<[kind |-> "value", name |-> t.name,
              j |-> FirstBad(lines, t) - 1,
              hex |-> ParseHex(lines[FirstBad(lines, t)]),
              bin |-> t.data[FirstBad(lines, t)]]>>
      ELSE <<>>

\* only the line count is compared
VerifyFails_countonly(files, t) ==
  Len(ReadLines(files[HexFileName(t.name)])) # t.size

\* lines 108-121: a tensor whose hex file does not read back as its data
VerifyFails(files, t) ==
  LET lines == ReadLines(files[HexFileName(t.name)])
  IN  \/ Len(lines) # t.size
      \/ \E j \in 1..Len(lines) : ParseHex(lines[j]) # t.data[j]

\* file names of the manifest, the scale constants and the LayerNorm image
ManifestName == <<109, 97, 110, 105, 102, 101, 115, 116, 46, 116, 120, 116>>

ScalesName ==
  <<119, 101, 105, 103, 104, 116, 95, 115, 99, 97, 108, 101, 115, 46, 118, 104>>

LnParamsName ==
  <<108, 110, 95, 112, 97, 114, 97, 109, 115, 46, 104, 101, 120>>

\* lines 128-153: manifest rows, scale localparams, packed LayerNorm bytes
WriteTables(files, ts) ==
  LET manifest == [i \in 1..Len(ts) |->
                     [index |-> ts[i].index, name |-> ts[i].name,
                      shape |-> ts[i].shape, size |-> ts[i].size,
                      scale |-> ts[i].scale,
                      hex_file |-> HexFileName(ts[i].name)]]
      scales   == [i \in 1..Len(ts) |->
                     [param |-> verilog_param_name(sanitize_name(ts[i].name)),
                      scale_hex |-> ts[i].scale_hex]]
      ln       == Concat([i \in 1..Len(ts) |->
                     IF ts[i].size = 128
                     THEN [j \in 1..128 |-> Hex02(ts[i].data[j])] ELSE <<>>])
  IN  PutFile(PutFile(PutFile(files, ManifestName, manifest),
                      ScalesName, scales), LnParamsName, ln)

\* names of the exported parameters, in order: "a" and "b.w", or "b_w" and
\* "b.w" (distinct keys that sanitize_name maps to one stem)
TensorNames == {<<<<97>>, <<98, 46, 119>>>>,
                <<<<98, 95, 119>>, <<98, 46, 119>>>>}

\* shapes of the parameters: a scalar, a vector, a matrix, a LayerNorm vector
ArShapes == {<<>>, <<3>>, <<2, 2>>, <<128>>}

\* float32 scales: 0x3a987282 and 1e-8 (0x322bcc77)
ArScales == {[s |-> 0, e |-> 117, m |-> 1602178],
             [s |-> 0, e |-> 100, m |-> 2870391]}

\* int8 values of the k-th tensor: the first value is the same in every
\* tensor, the others differ from tensor to tensor
Int8Data(n, k) ==
  [i \in 1..n |-> ((50 * i + 77 * k * (i - 1) + 128) % 256) - 128]

\* number of tensors in an archive
MaxTensors == 2

ArTensor(name, k, shape, sc) ==
  [name |-> name, shape |-> shape, scale |-> sc,
   data |-> Int8Data(Product(shape), k)]

TensorLists ==
  UNION {[1..n -> ArShapes \X ArScales] : n \in 0..MaxTensors}

ModelTensors(names, c) ==
  [k \in DOMAIN c |-> ArTensor(names[k], k, c[k][1], c[k][2])]

\* the file as written ("none"), cut short after n bytes ("cut"), with
\* another magic ("magic"), declaring one tensor more than it holds ("count"),
\* declaring one tensor fewer than it holds ("fewer"), or followed by further
\* bytes ("trail")
Damage(b) ==
  {<<"none", b>>}
    \cup {<<"cut", SubSeq(b, 1, n)>> : n \in 0..(Len(b) - 1)}
    \cup {<<"magic", [b EXCEPT ![8] = 50]>>, <<"magic", [b EXCEPT ![1] = 116]>>}
    \cup {<<"count", [b EXCEPT ![9] = b[9] + 1]>>}
    \cup (IF b[9] >= 1 THEN {<<"fewer", [b EXCEPT ![9] = b[9] - 1]>>} ELSE {})
    \cup {<<"trail", b \o <<0>>>>, <<"trail", b \o <<1, 0, 0, 0, 97>>>>}

Readers == {"extract_weights", "parse_bin"}

ArchiveOff ==
  /\ ar_pc = "off" /\ ar_prog = "" /\ ar_damage = "" /\ ar_src = <<>>
  /\ ar_in = <<>> /\ ar_pos = 0 /\ ar_num = 0
  /\ ar_tensors = <<>> /\ ar_files = <<>> /\ ar_report = <<>>

\* weights_int8.bin as export_weights_int8 left it, or damaged afterwards,
\* about to be read by one of the readers
ArchiveInit ==
  /\ ar_pc = "open"
  /\ ar_prog \in Readers
  /\ \E names \in TensorNames, c \in TensorLists :
       /\ ar_src = ModelTensors(names, c)
       /\ \E d \in Damage(export_weights_int8(ModelTensors(names, c))) :
            ar_damage = d[1] /\ ar_in = d[2]
  /\ ar_pos = 0 /\ ar_num = 0 /\ ar_tensors = <<>> /\ ar_files = <<>>
  /\ ar_report = <<>>

\* the magic test of both readers
MagicOk_any(magic) == TRUE

MagicOk(magic) == magic = MAGIC

\* a wrong magic: extract_weights prints ERROR and calls sys.exit(1),
\* parse_bin fails its assert
BadMagic(prog) == IF prog = "extract_weights" THEN "exit" ELSE "exc"

\* extract_weights.py lines 60-65, parse_bin lines 22-24: magic and count
ReadHeader ==
  /\ ar_pc = "open"
  /\ LET magic == ReadN(ar_in, 0, 8)
         nb    == ReadN(ar_in, 8, 4)
     IN  IF ~MagicOk(magic)
         THEN ar_pc' = BadMagic(ar_prog) /\ UNCHANGED <<ar_pos, ar_num>>
         ELSE IF Len(nb) # 4
         THEN ar_pc' = "exc" /\ UNCHANGED <<ar_pos, ar_num>>
         ELSE ar_pc' = "tensors" /\ ar_pos' = 12 /\ ar_num' = UnpackU32(nb)
  /\ UNCHANGED <<ar_prog, ar_damage, ar_src, ar_in, ar_tensors, ar_files>>
  /\ UNCHANGED ar_report
  /\ UNCHANGED notAr

\* one pass of the loop over the tensors
ReadNext ==
  /\ ar_pc = "tensors" /\ Len(ar_tensors) < ar_num
  /\ LET r == ReadTensor(ar_in, ar_pos, Len(ar_tensors), ar_prog)
     IN  IF r.ok
         THEN /\ ar_tensors' = Append(ar_tensors, r.tensor)
              /\ ar_pos' = r.pos
              /\ UNCHANGED ar_pc
         ELSE /\ ar_pc' = r.how
              /\ UNCHANGED <<ar_tensors, ar_pos>>
  /\ UNCHANGED <<ar_prog, ar_damage, ar_src, ar_in, ar_num, ar_files>>
  /\ UNCHANGED ar_report
  /\ UNCHANGED notAr

\* parse_bin line 43: return tensors
ReturnTensors ==
  /\ ar_pc = "tensors" /\ Len(ar_tensors) = ar_num
  /\ ar_prog = "parse_bin"
  /\ ar_pc' = "returned"
  /\ UNCHANGED <<ar_prog, ar_damage, ar_src, ar_in, ar_pos, ar_num,
                 ar_tensors, ar_files>>
  /\ UNCHANGED ar_report
  /\ UNCHANGED notAr

\* extract_weights.py lines 98-104
WriteHex ==
  /\ ar_pc = "tensors" /\ Len(ar_tensors) = ar_num
  /\ ar_prog = "extract_weights"
  /\ ar_files' = WriteHexFiles(ar_files, ar_tensors)
  /\ ar_pc' = "verify"
  /\ UNCHANGED <<ar_prog, ar_damage, ar_src, ar_in, ar_pos, ar_num, ar_tensors>>
  /\ UNCHANGED ar_report
  /\ UNCHANGED notAr

\* extract_weights.py lines 106-126: re-read every hex file, print a
\* VERIFY FAIL line per failing tensor; any mismatch ends the run
Verify ==
  /\ ar_pc = "verify"
  /\ ar_pc' = IF \E i \in 1..Len(ar_tensors) :
                     VerifyFails(ar_files, ar_tensors[i])
              THEN "exit" ELSE "tables"
  /\ ar_report' = Concat([i \in 1..Len(ar_tensors) |->
                            VerifyReport(ar_files, ar_tensors[i])])
  /\ UNCHANGED <<ar_prog, ar_damage, ar_src, ar_in, ar_pos, ar_num,
                 ar_tensors, ar_files>>
  /\ UNCHANGED notAr

\* extract_weights.py lines 128-155
WriteManifest ==
  /\ ar_pc = "tables"
  /\ ar_files' = WriteTables(ar_files, ar_tensors)
  /\ ar_pc' = "done"
  /\ UNCHANGED <<ar_prog, ar_damage, ar_src, ar_in, ar_pos, ar_num, ar_tensors>>
  /\ UNCHANGED ar_report
  /\ UNCHANGED notAr

(***************************************************************************)
(* GELU table generator (gen_gelu_lut.py).  An activation scale is a       *)
(* positive number n / 2^10; gelu(x) / act_scale is v * Phi(v * act_scale) *)
(* and is computed in units of 2^-16, with the normal distribution         *)
(* function Phi read from a table at steps of 1/32 and interpolated.       *)
(***************************************************************************)
\* cfg.n_layers
N_LAYERS == 4

\* Phi(k / 32) * 2^16 for k = 0..145, the erf of F.gelu
PhiTable ==
  <<32768, 33585, 34401, 35216, 36028, 36837, 37642, 38442, 39237, 40026,
    40807, 41581, 42347, 43104, 43852, 44589, 45316, 46031, 46735, 47426,
    48104, 48770, 49422, 50060, 50684, 51293, 51888, 52468, 53033, 53582,
    54116, 54635, 55138, 55626, 56099, 56555, 56997, 57423, 57835, 58231,
    58612, 58979, 59331, 59670, 59994, 60305, 60602, 60886, 61158, 61417,
    61664, 61899, 62123, 62336, 62537, 62729, 62911, 63083, 63245, 63399,
    63544, 63681, 63810, 63931, 64045, 64152, 64253, 64347, 64435, 64518,
    64595, 64668, 64735, 64798, 64856, 64910, 64961, 65008, 65051, 65092,
    65129, 65164, 65195, 65225, 65252, 65277, 65300, 65321, 65341, 65359,
    65375, 65390, 65404, 65416, 65428, 65438, 65448, 65456, 65464, 65471,
    65478, 65484, 65489, 65494, 65498, 65502, 65506, 65509, 65512, 65514,
    65517, 65519, 65521, 65522, 65524, 65525, 65527, 65528, 65529, 65529,
    65530, 65531, 65531, 65532, 65533, 65533, 65533, 65534, 65534, 65534,
    65534, 65535, 65535, 65535, 65535, 65535, 65535, 65535, 65535, 65536,
    65536, 65536, 65536, 65536, 65536, 65536>>

\* Phi(|v| * n / 2^10) in units of 2^-16
PhiAbs(v, n) ==
  LET a    == (IF v < 0 THEN -v ELSE v) * n
      idx  == a \div 32
      frac == a % 32
  IN  IF idx + 2 > Len(PhiTable) THEN Pow2(16)
      ELSE PhiTable[idx + 1]
             + ((PhiTable[idx + 2] - PhiTable[idx + 1]) * frac) \div 32

\* y / act_scale for x = v * act_scale and y = F.gelu(x), in units of 2^-16:
\* v * Phi(x), with Phi(-x) = 1 - Phi(x)
GeluOverScale(v, n) ==
  IF v >= 0 THEN v * PhiAbs(v, n) ELSE v * (Pow2(16) - PhiAbs(v, n))

\* torch.round of a value in units of 2^-16: to the nearest integer, a tie to
\* the even one
RoundHalfEven(q) ==
  LET fl == IF q >= 0 THEN q \div Pow2(16) ELSE -((-q + Pow2(16) - 1) \div Pow2(16))
      r  == q - fl * Pow2(16)
  IN  IF r > Pow2(15) THEN fl + 1
      ELSE IF r < Pow2(15) THEN fl
      ELSE IF fl % 2 = 0 THEN fl ELSE fl + 1

\* the table index read as offset binary instead of two's complement
GeluInput_offset(i) == i - 128

\* inputs: i - 256 if i >= 128 else i
GeluInput(i) == IF i >= 128 THEN i - 256 ELSE i

\* build_gelu_lut: 256 bytes, entry i for the int8 value of byte i
build_gelu_lut(n) ==
  [k \in 1..256 |->
     LowBits(Max2(-128, Min2(127,
       RoundHalfEven(GeluOverScale(GeluInput(k - 1), n)))), 8)]

\* act_scale = abs_max / 127.0 of the calibration, as n / 2^10: ranges of the
\* ff_up outputs from about 2 to 8
GeluScales == {16, 24, 32, 48, 64}

GeluOff ==
  /\ ge_pc = "off" /\ ge_scales = <<>> /\ ge_layer = 0 /\ ge_lut = <<>>
  /\ ge_file = <<>>

\* main after the calibration: one activation scale per layer
GeluInit ==
  /\ ge_pc = "build"
  /\ ge_scales \in [1..N_LAYERS -> GeluScales]
  /\ ge_layer = 0 /\ ge_lut = <<>> /\ ge_file = <<>>

\* main lines 113-114: combined.extend(build_gelu_lut(act_scales[i]))
BuildLayer ==
  /\ ge_pc = "build" /\ ge_layer < N_LAYERS
  /\ ge_lut' = ge_lut \o build_gelu_lut(ge_scales[ge_layer + 1])
  /\ ge_layer' = ge_layer + 1
  /\ UNCHANGED <<ge_pc, ge_scales, ge_file>>
  /\ UNCHANGED notGe

\* write_hex: a comment line per layer, then one line per entry
WriteGeluHex ==
  /\ ge_pc = "build" /\ ge_layer = N_LAYERS
  /\ ge_file' = [i \in 1..N_LAYERS |-> <<"// layer", i - 1, ge_scales[i]>>]
                  \o [k \in 1..Len(ge_lut) |-> Hex02(ge_lut[k])]
  /\ ge_pc' = "done"
  /\ UNCHANGED <<ge_scales, ge_layer, ge_lut>>
  /\ UNCHANGED notGe

(***************************************************************************)
(* Specifications                                                          *)
(***************************************************************************)
\* a specification runs one kernel; the others are never called
OthersOff(k) ==
  /\ IF k = "sm" THEN TRUE ELSE SoftmaxOff
  /\ IF k = "isq" THEN TRUE ELSE InvSqrtOff
  /\ IF k = "ln" THEN TRUE ELSE LayerNormOff
  /\ IF k = "rq" THEN TRUE ELSE RequantOff
  /\ IF k = "mv" THEN TRUE ELSE MatVecOff
  /\ IF k = "be" THEN TRUE ELSE BipartiteOff
  /\ IF k = "em" THEN TRUE ELSE EmbeddingOff
  /\ IF k = "kv" THEN TRUE ELSE KvCacheOff
  /\ IF k = "ar" THEN TRUE ELSE ArchiveOff
  /\ IF k = "ge" THEN TRUE ELSE GeluOff

SoftmaxSpecInit == SoftmaxInit /\ OthersOff("sm")

SoftmaxSpecNext == ExpAcc \/ LnSum \/ Norm

SpecSoftmax == SoftmaxSpecInit /\ [][SoftmaxSpecNext]_vars

InvSqrtSpecInit == InvSqrtInit /\ OthersOff("isq")

InvSqrtSpecNext == GenLutMain \/ LoadLut \/ InvSqrtCall

SpecInvSqrt == InvSqrtSpecInit /\ [][InvSqrtSpecNext]_vars

LayerNormSpecInit == LayerNormInit /\ OthersOff("ln")

LayerNormSpecNext == MeanAcc \/ VarAcc \/ InvStd \/ LnNorm

SpecLayerNorm == LayerNormSpecInit /\ [][LayerNormSpecNext]_vars

RequantSpecInit == RequantInit /\ OthersOff("rq")

RequantSpecNext == RequantCall

SpecRequant == RequantSpecInit /\ [][RequantSpecNext]_vars

RequantArgsSpecInit == RequantArgsInit /\ OthersOff("rq")

SpecRequantArgs == RequantArgsSpecInit /\ [][RequantSpecNext]_vars

SoftmaxFlatSpecInit == SoftmaxFlatInit /\ OthersOff("sm")

SpecSoftmaxFlat == SoftmaxFlatSpecInit /\ [][SoftmaxSpecNext]_vars

BipartiteSpecInit == BipartiteInit /\ OthersOff("be")

BipartiteSpecNext == BipartiteCall

SpecBipartite == BipartiteSpecInit /\ [][BipartiteSpecNext]_vars

EmbeddingSpecInit == EmbeddingInit /\ OthersOff("em")

EmbeddingSpecNext == EmbeddingCall

SpecEmbedding == EmbeddingSpecInit /\ [][EmbeddingSpecNext]_vars

KvAddrSpecInit == KvAddrInit /\ OthersOff("kv")

KvAddrSpecNext == KvAddrCall

SpecKvAddr == KvAddrSpecInit /\ [][KvAddrSpecNext]_vars

KvCacheSpecInit == KvCacheInit /\ OthersOff("kv")

KvCacheSpecNext == KvWrite \/ KvRead

SpecKvCache == KvCacheSpecInit /\ [][KvCacheSpecNext]_vars

ArchiveSpecInit == ArchiveInit /\ OthersOff("ar")

ArchiveSpecNext ==
  ReadHeader \/ ReadNext \/ ReturnTensors \/ WriteHex \/ Verify \/ WriteManifest

SpecArchive == ArchiveSpecInit /\ [][ArchiveSpecNext]_vars

GeluSpecInit == GeluInit /\ OthersOff("ge")

GeluSpecNext == BuildLayer \/ WriteGeluHex

SpecGelu == GeluSpecInit /\ [][GeluSpecNext]_vars

MatVecSpecInit == MatVecInit /\ OthersOff("mv")

MatVecSpecNext == MatVecRow

SpecMatVec == MatVecSpecInit /\ [][MatVecSpecNext]_vars

(***************************************************************************)
(* Inverse square root claims                                              *)
(***************************************************************************)
\* the position of the leading one of d >= 1, by magnitude
LeadingOne(d) == CHOOSE k \in 0..31 : Pow2(k) <= d /\ d < 2 * Pow2(k)

IsPow2(d) == d >= 1 /\ d = Pow2(LeadingOne(d))

\* C3: for both widths (14 and 17) and 0 < d1 < d2 < 2^W the result is
\* non-increasing, InvSqrt(d1) >= InvSqrt(d2), with the table produced by
\* generate_lut; d1, d2 are two successive evaluations (d2 = d1 + 1 or 2 * d1).
C3_InvSqrtNonIncreasing ==
  (isq_pc = "run" /\ isq_prev # <<>>) =>
    /\ isq_lut = generate_lut
    /\ (0 < isq_prev[1].d /\ isq_prev[1].d < isq_d) =>
          isq_prev[1].result >= isq_out.result

C3_Witness ==
  /\ isq_pc = "run" /\ isq_dw = ISQRT_DW /\ isq_prev # <<>>
  /\ isq_prev[1].d >= Pow2(ISQRT_DW - 1) /\ isq_d = isq_prev[1].d + 1
  /\ isq_prev[1].result > isq_out.result /\ isq_out.result > 0

\* C4: d = 0 gives 0xFFFF; otherwise k is the leading-one index, mantissa is
\* floor((d - 2^k) * 256 / 2^k), the address is (k mod 2) * 256 + mantissa
\* and the result is table[address] >> floor(k / 2).
C4_InvSqrtFormula ==
  isq_pc = "run" =>
    IF isq_d = 0 THEN isq_out.result = 65535
    ELSE LET k    == LeadingOne(isq_d)
             mant == ((isq_d - Pow2(k)) * 256) \div Pow2(k)
             addr == (k % 2) * 256 + mant
         IN  /\ isq_out.k = k
             /\ isq_out.mantissa = mant
             /\ isq_out.lut_addr = addr
             /\ isq_out.result = isq_lut[addr + 1] \div Pow2(k \div 2)

C4_Witness ==
  /\ isq_pc = "run" /\ isq_dw = D_W /\ isq_d = 12345
  /\ isq_out.k = 13 /\ isq_out.mantissa = 129 /\ isq_out.lut_addr = 385
  /\ isq_out.result > 0

\* C5: for d a power of two (d = 2^k, k < W) the mantissa is 0 and the
\* result is the table entry at (k mod 2) * 256 shifted right by floor(k / 2).
C5_InvSqrtPowerOfTwo ==
  (isq_pc = "run" /\ IsPow2(isq_d)) =>
    LET k == LeadingOne(isq_d)
    IN  /\ isq_out.mantissa = 0
        /\ isq_out.result = isq_lut[(k % 2) * 256 + 1] \div Pow2(k \div 2)

C5_Witness ==
  /\ isq_pc = "run" /\ isq_dw = ISQRT_DW /\ isq_d = Pow2(ISQRT_DW - 1)
  /\ isq_out.mantissa = 0 /\ isq_out.lut_addr = 0 /\ isq_out.result = 128

\* q is the integer nearest to 2^19 / sqrt(r): (2q-1)^2 r <= 2^40 <= (2q+1)^2 r,
\* with 2^15 / sqrt(r / 256) = 2^19 / sqrt(r)
NearestInvSqrt(q, r) ==
  /\ WLeq(WScale(WMul(2 * q - 1, 2 * q - 1), r), TwoTo40)
  /\ WLeq(TwoTo40, WScale(WMul(2 * q + 1, 2 * q + 1), r))

\* C6: the generated table has exactly 512 entries; entry i (k_lsb = bit 8,
\* m = i mod 256) is the integer nearest to 2^15/sqrt(1+m/256) for k_lsb = 0
\* and to 2^15/sqrt(2(1+m/256)) for k_lsb = 1, and fits 16 unsigned bits.
C6_LutEntries ==
  isq_pc = "ready" =>
    /\ Len(hex_file) = 512 /\ Len(isq_lut) = 512
    /\ \A i \in 0..511 :
         LET q == isq_lut[i + 1]
             m == i % 256
         IN  /\ q \in 0..65535
             /\ Len(hex_file[i + 1]) = 4
             /\ IF (i \div 256) % 2 = 0
                  THEN NearestInvSqrt(q, 256 + m)
                  ELSE NearestInvSqrt(q, 2 * (256 + m))

C6_Witness ==
  /\ isq_pc = "ready" /\ Len(isq_lut) = 512
  /\ isq_lut[1] = 32768 /\ isq_lut[257] = 23170 /\ isq_lut[512] = 16400

(***************************************************************************)
(* LayerNorm claims                                                        *)
(***************************************************************************)
\* a byte of ln_params.hex read as two's-complement
SignedByte(b) == ((b + 128) % 256) - 128

\* v is x reduced to a two's-complement number of `bits` bits (bits >= 12),
\* compared limb by limb
IsSignedWrap(v, x, bits) ==
  /\ Wide(v).lo = Wide(x).lo
  /\ (Wide(v).hi - Wide(x).hi) % Pow2(bits - 12) = 0
  /\ -Pow2(bits - 13) <= Wide(v).hi /\ Wide(v).hi < Pow2(bits - 13)

ConstantInput == \A i \in 1..Len(ln_inputs) : ln_inputs[i] = ln_inputs[1]

\* C7: for a constant input vector and every gamma and beta, every output i
\* equals clamp(beta[i], -128, 127): the mean is the input value, the centered
\* values and the variance are zero, inv_std is 0xFFFF and the product is 0.
C7_ConstantInputGivesBeta ==
  (ln_pc = "DONE" /\ ConstantInput) =>
    /\ mean = ln_inputs[1]
    /\ var_acc = 0
    /\ inv_std = 65535
    /\ \A i \in 1..DIM :
         /\ centered[i] = 0
         /\ ln_chan[i].full_prod = 0
         /\ ln_chan[i].rounded = 0
         /\ ln_outputs[i] = SignedByte(beta_bytes[i])
         /\ ln_outputs[i] \in -128..127

C7_Witness ==
  /\ ln_pc = "DONE" /\ ConstantInput /\ ln_inputs[1] = 42
  /\ gamma_bytes[2] # 0
  /\ beta_bytes[1] = 128 /\ ln_outputs[1] = -128
  /\ beta_bytes[DIM] = 255 /\ ln_outputs[DIM] = -1

\* C8: mean = sum >> 7, centered[i] = input[i] - mean, var_acc = sum of the
\* squares, inv_std = InvSqrt(var_acc >> 7) with W = 17, full_prod =
\* centered[i]*inv_std*gamma[i] as 33-bit signed, biased = ((full_prod + 16384)
\* >> 15) + beta[i] as 18-bit signed, output = clamp(biased, -128, 127), so
\* every output lies in [-128, 127].
C8_LayerNormPipeline ==
  ln_pc = "DONE" =>
    /\ mean * 128 <= SeqSum(ln_inputs) /\ SeqSum(ln_inputs) < (mean + 1) * 128
    /\ Len(centered) = Len(ln_inputs)
    /\ \A i \in 1..Len(ln_inputs) : centered[i] = ln_inputs[i] - mean
    /\ var_acc = SeqSum([i \in 1..Len(centered) |-> centered[i] * centered[i]])
    /\ inv_std = golden_inv_sqrt(var_acc \div 128, isqrt_lut, ISQRT_DW).result
    /\ Len(ln_outputs) = DIM
    /\ \A i \in 1..DIM :
         LET ch == ln_chan[i]
             g  == SignedByte(gamma_bytes[i])
             b  == SignedByte(beta_bytes[i])
         IN  /\ IsSignedWrap(ch.full_prod, centered[i] * inv_std * g, 33)
             /\ ch.rounded * 32768 <= ch.full_prod + 16384
             /\ ch.full_prod + 16384 < (ch.rounded + 1) * 32768
             /\ IsSignedWrap(ch.biased, ch.rounded + b, 18)
             /\ ln_outputs[i] = (IF ch.biased > 127 THEN 127
                                 ELSE IF ch.biased < -128 THEN -128
                                 ELSE ch.biased)
             /\ ln_outputs[i] \in -128..127

C8_Witness ==
  /\ ln_pc = "DONE" /\ var_acc > 0 /\ inv_std < 32768
  /\ \E i, j, l \in 1..DIM :
        /\ ln_chan[i].biased > 127 /\ ln_outputs[i] = 127
        /\ ln_chan[j].biased < -128 /\ ln_outputs[j] = -128
        /\ ln_chan[l].full_prod # 0 /\ ln_outputs[l] = ln_chan[l].biased

\* C9: r = (full_prod + 16384) >> 15 is full_prod / 2^15 rounded to the
\* nearest integer, |r * 32768 - full_prod| <= 16384, exact halves upward.
C9_RoundToNearest ==
  ln_pc = "DONE" =>
    \A i \in 1..DIM :
       LET e == ln_chan[i].rounded * 32768 - ln_chan[i].full_prod
       IN  -16384 < e /\ e <= 16384

C9_Witness ==
  /\ ln_pc = "DONE"
  /\ \E i, j \in 1..DIM :
        /\ ln_chan[i].full_prod > 0
        /\ ln_chan[i].rounded * 32768 - ln_chan[i].full_prod = 16384
        /\ ln_chan[j].full_prod < 0
        /\ ln_chan[j].rounded * 32768 - ln_chan[j].full_prod < 0

(***************************************************************************)
(* Requantization claims                                                   *)
(***************************************************************************)
\* the wide v is the wide x reduced to two's complement of `bits` bits
IsSignedWrapW(v, x, bits) ==
  /\ v.lo = x.lo
  /\ (v.hi - x.hi) % Pow2(bits - 12) = 0
  /\ -Pow2(bits - 13) <= v.hi /\ v.hi < Pow2(bits - 13)

\* C10: product = acc*scale, its low A+S bits read as two's complement,
\* arithmetic shift right by shift, clamp to [-128, 127], returned as the
\* unsigned byte value & 0xFF; for both (24,16,22) and (19,16,19).
C10_RequantFormula ==
  rq_pc = "done" =>
    LET bits == rq_cfg.acc_w + rq_cfg.scale_w
        sh   == rq_cfg.shift
        s    == rq_res.shifted.hi * LIMB + rq_res.shifted.lo
    IN  /\ IsSignedWrapW(rq_res.product, WMul(acc, scale), bits)
        \* s = floor(product / 2^shift), shift >= 12
        /\ s * Pow2(sh - 12) <= rq_res.product.hi
        /\ rq_res.product.hi < (s + 1) * Pow2(sh - 12)
        /\ rq_res.clamped = (IF s > 127 THEN 127 ELSE IF s < -128 THEN -128 ELSE s)
        /\ rq_res.out \in 0..255
        /\ (rq_res.out - rq_res.clamped) % 256 = 0

C10_Witness ==
  /\ rq_pc = "done"
  /\ rq_cfg = [acc_w |-> 19, scale_w |-> 16, shift |-> 19]
  /\ acc < 0 /\ scale = 32768
  /\ rq_res.clamped < 0 /\ rq_res.clamped > -128
  /\ rq_res.out = 256 + rq_res.clamped

\* the other configuration of C10, at a clamped negative product
C10_WitnessWide ==
  /\ rq_pc = "done"
  /\ rq_cfg = [acc_w |-> 24, scale_w |-> 16, shift |-> 22]
  /\ acc = -Pow2(23) /\ scale = 65535
  /\ rq_res.clamped = -128 /\ rq_res.out = 128

\* the accumulators of largest absolute value in the signed aw-bit range
MaxMagnitude(aw) ==
  LET ends == {-Pow2(aw - 1), Pow2(aw - 1) - 1}
      abs(x) == IF x < 0 THEN -x ELSE x
  IN  {a \in ends : \A b \in ends : abs(a) >= abs(b)}

AtShiftZero ==
  /\ rq_pc = "done"
  /\ rq_cfg = [acc_w |-> 24, scale_w |-> 16, shift |-> 0]
  /\ scale = 32767

\* C11 as stated: with A = 24, S = 16, scale = 32767 and shift = 0, the
\* accumulator of maximum magnitude in the signed 24-bit range gives the
\* clamped output 127.
C11_MaxMagnitudeGives127 ==
  (AtShiftZero /\ acc \in MaxMagnitude(24)) =>
    (rq_res.clamped = 127 /\ rq_res.out = 127)

\* C11, amended: with A = 24, S = 16, scale = 32767 and shift = 0, the largest
\* positive accumulator 2^23 - 1 gives the clamped output 127, and the
\* accumulator of maximum magnitude, -2^23, gives -128 (byte 0x80).
C11_MaxPositiveGives127 ==
  AtShiftZero =>
    /\ acc = Pow2(23) - 1 => (rq_res.clamped = 127 /\ rq_res.out = 127)
    /\ acc = -Pow2(23) => (rq_res.clamped = -128 /\ rq_res.out = 128)

C11_Witness ==
  /\ AtShiftZero /\ acc = Pow2(23) - 1
  /\ rq_res.product = WMul(Pow2(23) - 1, 32767)
  /\ rq_res.shifted = rq_res.product
  /\ rq_res.clamped = 127

(***************************************************************************)
(* Softmax claims                                                          *)
(***************************************************************************)
IsMaximal(i) == sm_inputs[i] = SeqMax(sm_inputs)

\* largest distance of the vector as the kernel clips it
MaxDist ==
  LET mx == SeqMax(sm_inputs)
      mn == -SeqMax([i \in 1..Len(sm_inputs) |-> -sm_inputs[i]])
  IN  Min2(mx - mn, D_CLIP)

\* bipartite_exp over the tables in use does not rise anywhere on lo..hi
NonIncreasingOn(lo, hi) ==
  \A a \in lo..(hi - 1) :
     bipartite_exp(a, lut0, lut1) >= bipartite_exp(a + 1, lut0, lut1)

C2_MaxOutputIsExpOfLnOffset ==
  sm_pc = "DONE" =>
    \A i \in 1..Len(sm_inputs) :
       IsMaximal(i) => sm_outputs[i] = bipartite_exp(ln_offset, lut0, lut1)

C2_Witness ==
  /\ sm_pc = "DONE"
  /\ ln_offset > 0 /\ ln_offset < D_CLIP
  /\ \E i \in 1..Len(sm_inputs) :
        IsMaximal(i) /\ sm_outputs[i] > 0
                     /\ sm_outputs[i] # bipartite_exp(0, lut0, lut1)

\* the degenerate case of C2: zero exp-sum, ln_offset = 2048, output 0
C2_WitnessZeroSum ==
  /\ sm_pc = "DONE" /\ sum_acc = 0 /\ ln_offset = D_CLIP
  /\ \A i \in 1..Len(sm_inputs) : sm_outputs[i] = 0

(***************************************************************************)
(* MatVec claims                                                           *)
(***************************************************************************)
\* the input vector of the testbench: all ones
TbVector == Rep(MV_DIM, 1)

\* sum over the columns of matrix[row][col] * vector[col], in full precision
DotProduct(raw, row, vec) ==
  SeqSum([c \in 1..MV_DIM |-> SignedByte(raw[(row - 1) * MV_DIM + c]) * vec[c]])

\* x reduced to two's complement of 24 bits
Wrap24(x) == ((x + 8388608) % 16777216) - 8388608

C12_WitnessAll127 ==
  /\ mv_row = 1 /\ mv_raw[1] = 127
  /\ mv_acc = 16256 /\ mv_out = <<127>>

(***************************************************************************)
(* Bipartite exponential claims                                            *)
(***************************************************************************)
\* C13: for 0 <= d <= 2047, d = 64*x0 + 8*x1 + x2 with x0 = d[10:6],
\* x1 = d[5:3], x2 = d[2:0]; both addresses (x0<<3)|x1 and (x0<<3)|x2 lie in
\* 0..255; the result is clamp(LUT0[(x0<<3)|x1] + LUT1[(x0<<3)|x2], 0, 32768)
\* and lies in [0, 32768] whatever the tables hold.
C13_BipartiteSplit ==
  (be_pc = "done" /\ be_d <= 2047) =>
    \E x0 \in 0..31, x1 \in 0..7, x2 \in 0..7 :
      LET a0  == 8 * x0 + x1
          a1  == 8 * x0 + x2
          sum == be_l0[a0 + 1] + be_l1[a1 + 1]
      IN  /\ be_d = 64 * x0 + 8 * x1 + x2
          /\ be_res.addr = [x0 |-> x0, x1 |-> x1, x2 |-> x2, a0 |-> a0, a1 |-> a1]
          /\ a0 \in 0..255 /\ a1 \in 0..255
          /\ be_res.result = (IF sum < 0 THEN 0 ELSE IF sum > 32768 THEN 32768 ELSE sum)
          /\ be_res.result \in 0..32768

\* the last address of both tables, with the sum clamped from above
C13_Witness ==
  /\ be_pc = "done" /\ be_d = 2047
  /\ be_res.addr.a0 = 255 /\ be_res.addr.a1 = 255
  /\ be_l0[256] + be_l1[256] > 32768 /\ be_res.result = 32768

\* a sum below zero is returned as 0
C13_WitnessNegative ==
  /\ be_pc = "done" /\ be_d = 1000
  /\ be_l0[be_res.addr.a0 + 1] + be_l1[be_res.addr.a1 + 1] < 0
  /\ be_res.result = 0

\* distinct fields address distinct entries
C13_WitnessAddresses ==
  /\ be_pc = "done" /\ be_d = 64 * 21 + 8 * 3 + 6
  /\ be_l0 = AddrLut0
  /\ be_res.result = 100 * (8 * 21 + 3) + (8 * 21 + 6) - 128
(***************************************************************************)
(* Log-sum claims                                                          *)
(***************************************************************************)
\* the 4 bits below bit k of sum, zero-padded on the right when k < 4
BitsBelow(sum, k) ==
  IF k >= 4 THEN (sum - Pow2(k)) \div Pow2(k - 4)
            ELSE (sum - Pow2(k)) * Pow2(4 - k)

\* C14: for every non-zero sum (1 <= sum <= 0xFFFFFF),
\* ln_offset = clamp((k - 15) * 89 + LN1PS[s], 0, 2048) with k the position
\* of the leading one of sum and s the 4 bits immediately below it
\* (zero-padded when k < 4); so ln_offset lies in [0, 2048].
C14_LnOffsetFormula ==
  (sm_pc \in {"NORM", "DONE"} /\ sum_acc # 0) =>
    /\ sum_acc \in 1..16777215
    /\ \E k \in 0..23 :
         /\ Pow2(k) <= sum_acc /\ sum_acc < Pow2(k + 1)
         /\ LET s   == BitsBelow(sum_acc, k)
                raw == (k - 15) * 89 + LN1PS_LUT[s + 1]
            IN  ln_offset = (IF raw < 0 THEN 0 ELSE IF raw > 2048 THEN 2048 ELSE raw)
    /\ ln_offset \in 0..2048

\* the saturated sum: k = 23, s = 15
C14_Witness ==
  /\ sm_pc = "DONE" /\ Len(sm_inputs) = 513
  /\ sum_acc = 16777215 /\ ln_offset = 8 * 89 + 87

\* a sum below 16, where the mantissa is padded: 3 = 1.1b, k = 1, s = 8
C14_WitnessPadded ==
  /\ sm_pc = "NORM" /\ sum_acc = 3 /\ ln_offset = 0

\* k = 15 with a non-zero mantissa: the offset is LN1PS[s]
C14_WitnessMantissa ==
  /\ sm_pc = "NORM" /\ sum_acc = 32768 + 2 * 2048 /\ ln_offset = 15

\* Bounds on 128 * ln(1 + s/16) in units of 1/LnQ, from
\* ln(1 + s/16) = 2 * atanh(z) = 2 * (z + z^3/3 + z^5/5 + ...), z = s/(32 + s):
\* every product and quotient is rounded down for the lower bound and up for
\* the upper bound; the terms after z^9 add less than one unit (z <= 15/47).
LnQ == Pow2(14)

MulLo(a, b) == (a * b) \div LnQ

MulHi(a, b) == (a * b + LnQ - 1) \div LnQ

RECURSIVE PowLo(_, _)
PowLo(z, n) == IF n = 1 THEN z ELSE MulLo(PowLo(z, n - 2), MulLo(z, z))

RECURSIVE PowHi(_, _)
PowHi(z, n) == IF n = 1 THEN z ELSE MulHi(PowHi(z, n - 2), MulHi(z, z))

Ln128Lo(s) ==
  LET z == (s * LnQ) \div (32 + s)
  IN  256 * (PowLo(z, 1) + PowLo(z, 3) \div 3 + PowLo(z, 5) \div 5
               + PowLo(z, 7) \div 7 + PowLo(z, 9) \div 9)

Ln128Hi(s) ==
  LET z == (s * LnQ + 31 + s) \div (32 + s)
  IN  256 * (PowHi(z, 1) + (PowHi(z, 3) + 2) \div 3 + (PowHi(z, 5) + 4) \div 5
               + (PowHi(z, 7) + 6) \div 7 + (PowHi(z, 9) + 8) \div 9 + 1)

\* t can be 128 * ln(1 + s/16) rounded to the nearest integer: the interval
\* [t - 1/2, t + 1/2] meets the bounds
CanBeNearestLn(t, s) ==
  /\ (2 * t - 1) * LnQ <= 2 * Ln128Hi(s)
  /\ 2 * Ln128Lo(s) <= (2 * t + 1) * LnQ

\* C15: each entry LN1PS[s], s in 0..15, is ln(1 + s/16) * 128 rounded to the
\* nearest integer.  Stated of the entry the LN_SUM phase has read.
C15_Ln1psNearest ==
  (sm_pc = "NORM" /\ sum_acc # 0) =>
    LET s == BitsBelow(sum_acc, lod24(sum_acc))
    IN  CanBeNearestLn(LN1PS_LUT[s + 1], s)

\* the entries below 8 are within the bounds
C15_LowEntriesNearest ==
  (sm_pc = "NORM" /\ sum_acc # 0) =>
    LET s == BitsBelow(sum_acc, lod24(sum_acc))
    IN  s < 8 => CanBeNearestLn(LN1PS_LUT[s + 1], s)

(***************************************************************************)
(* Embedding claims                                                        *)
(***************************************************************************)
\* C16: for all bytes t and p read as signed int8, s9 is t + p in 9 bits and
\* the output is (s9 >> 1) in 8 bits; read as signed int8 the output is
\* floor((t + p) / 2), with no overflow or clamping.
C16_EmbeddingFloorHalf ==
  em_pc = "done" =>
    LET sum == SignedByte(em_t) + SignedByte(em_p)
        o   == SignedByte(em_res.out)
    IN  /\ em_res.s9 \in 0..511 /\ (em_res.s9 - sum) % 512 = 0
        /\ em_res.out \in 0..255
        /\ em_res.out = (em_res.s9 \div 2) % 256
        /\ 2 * o <= sum /\ sum < 2 * o + 2

\* an odd negative sum: -1 + -128 = -129 gives floor(-64.5) = -65
C16_Witness ==
  /\ em_pc = "done" /\ em_t = 255 /\ em_p = 128
  /\ em_res.s9 = 512 - 129 /\ em_res.out = 256 - 65

\* the ends of the range: -128 + -128 gives -128, 127 + 127 gives 127
C16_WitnessEnds ==
  /\ em_pc = "done"
  /\ \/ em_t = 128 /\ em_p = 128 /\ em_res.out = 128
     \/ em_t = 127 /\ em_p = 127 /\ em_res.out = 127

(***************************************************************************)
(* KV-cache claims                                                         *)
(***************************************************************************)
\* the coordinates a slot index stands for, field by field from the right
SlotCoord(s) ==
  [d  |-> s % 16,
   p  |-> (s \div 16) % 256,
   h  |-> (s \div 4096) % 8,
   kv |-> (s \div 32768) % 2,
   l  |-> s \div 65536]

\* C17: over layers = 4, kv in {0, 1}, heads = 8, max_positions = 256,
\* head_dim = 16 the address function is injective, and every slot index is
\* below layers * 2 * heads * max_positions * head_dim.  A slot gives back
\* the one coordinate tuple it was computed from, so no two tuples share it.
C17_KvAddrInjective ==
  kv_pc = "addressed" =>
    /\ kv_slot \in 0..(4 * 2 * 8 * 256 * 16 - 1)
    /\ SlotCoord(kv_slot) = kv_coord
    /\ \A c \in {[kv_coord EXCEPT !.l = x] : x \in 0..3}
              \cup {[kv_coord EXCEPT !.kv = x] : x \in 0..1}
              \cup {[kv_coord EXCEPT !.h = x] : x \in 0..7}
              \cup {[kv_coord EXCEPT !.p = x] : x \in {0, 255}}
              \cup {[kv_coord EXCEPT !.d = x] : x \in 0..15} :
         c # kv_coord => KvAddr(c) # kv_slot

\* the last coordinate tuple takes the last slot
C17_Witness ==
  /\ kv_pc = "addressed"
  /\ kv_coord = Coord(3, 1, 7, 255, 15)
  /\ kv_slot = 262143

\* the value of the last write to coordinate c in the log
LastWritten(log, c) ==
  LET last == SetMax({i \in 1..Len(log) : log[i][1] = c})
  IN  log[last][2]

\* C18: after any sequence of writes, a read of a coordinate returns the
\* value last written to that coordinate; writes to coordinates that differ
\* only in head, only in the K/V selector or only in layer leave it alone.
C18_ReadsLastWritten ==
  kv_rd # NoRead => kv_rd.out = LastWritten(kv_log, kv_rd.c)

\* cross-head: a write to head 1 after the write to head 0, then head 0 read
C18_Witness ==
  /\ kv_log = <<<<Coord(0, 0, 0, 5, 0), 17>>, <<Coord(0, 0, 1, 5, 0), 34>>>>
  /\ kv_rd = [c |-> Coord(0, 0, 0, 5, 0), out |-> 17]

\* K/V and cross-layer: the first of three writes is read back unchanged
C18_WitnessKvLayer ==
  /\ kv_log = <<<<Coord(2, 0, 5, 100, 7), 170>>, <<Coord(2, 1, 5, 100, 7), 85>>,
               <<Coord(0, 0, 7, 200, 15), 255>>>>
  /\ kv_rd = [c |-> Coord(2, 0, 5, 100, 7), out |-> 170]

\* a coordinate written twice reads as the second value
C18_WitnessRewrite ==
  /\ kv_log = <<<<Coord(0, 0, 0, 0, 0), 165>>, <<Coord(0, 0, 0, 0, 0), 90>>>>
  /\ kv_rd = [c |-> Coord(0, 0, 0, 0, 0), out |-> 90]
(***************************************************************************)
(* Weight archive claims                                                   *)
(***************************************************************************)
\* the IEEE 754 bit pattern of a float32 as a 32-bit number
F32Bits(f) ==
  [hi |-> f.s * Pow2(19) + f.e * Pow2(11) + f.m \div LIMB, lo |-> f.m % LIMB]

\* what a reader holds for tensor i, against the tensor that was exported
SameTensor(r, t, i) ==
  /\ r.index = i - 1
  /\ r.name = t.name
  /\ r.shape = t.shape
  /\ r.size = Len(t.data)
  /\ Len(r.data) = Len(t.data)
  /\ \A j \in 1..Len(t.data) : to_signed8(r.data[j]) = t.data[j]
  /\ r.scale = t.scale
  /\ r.scale_hex = F32Bits(t.scale)

\* the reader has left its loop over the tensors
Parsed == ar_pc \in {"returned", "verify", "tables", "done"}

C19_WitnessExtract ==
  /\ ar_pc = "done" /\ ar_damage = "none"
  /\ Len(ar_tensors) = 2
  /\ ar_tensors[1].shape = <<128>>
  /\ ar_tensors[2].shape = <<>>

\* C20: a reader given an archive with a wrong magic, or one whose declared
\* count, name length, dimensions or data size reach past the end of the
\* input, never leaves its loop with a tensor list: it is still reading with
\* tensors outstanding, or it has ended with an exception or sys.exit(1); and
\* no file has been written.
C20_DamagedArchiveFails ==
  (ar_pc # "off" /\ ar_damage \in {"magic", "cut", "count"}) =>
    /\ ar_pc \in {"open", "tensors", "exit", "exc"}
    /\ ar_pc = "tensors" => Len(ar_tensors) < ar_num
    /\ ar_files = <<>>

\* extract_weights stopped on a wrong magic
C20_Witness ==
  /\ ar_damage = "magic" /\ ar_prog = "extract_weights" /\ ar_pc = "exit"
  /\ ar_src # <<>> /\ ar_tensors = <<>>

\* extract_weights stopped on the data of the second tensor being short
C20_WitnessShortData ==
  /\ ar_damage = "cut" /\ ar_prog = "extract_weights" /\ ar_pc = "exit"
  /\ Len(ar_tensors) = 1 /\ ar_num = 2

\* a reader stopped in struct.unpack on a field cut short
C20_WitnessShortField ==
  /\ ar_damage = "cut" /\ ar_pc = "exc" /\ Len(ar_tensors) = 1

\* a reader stopped on a count larger than the tensors present
C20_WitnessCount ==
  /\ ar_damage = "count" /\ ar_pc = "exc" /\ Len(ar_tensors) = Len(ar_src)
  /\ ar_num = Len(ar_src) + 1

\* C21: a reader that has left its loop with a tensor list has read as many
\* records as the archive holds and has consumed the whole byte stream.
C21_AcceptedArchiveIsExact ==
  Parsed => (ar_num = Len(ar_src) /\ ar_pos = Len(ar_in))

\* extract_weights has finished on an archive followed by further bytes
C21_TrailingAccepted ==
  ar_pc = "done" /\ ar_damage = "trail" /\ ar_pos < Len(ar_in)

\* the hex file of a tensor does not hold the tensor's bytes, one per line
Differs(files, t) ==
  /\ HexFileName(t.name) \in DOMAIN files
  /\ files[HexFileName(t.name)] # [j \in 1..t.size |-> Hex02(t.data[j])]

\* some hex file on disk differs from its source tensor
Mismatch ==
  \E i \in 1..Len(ar_tensors) : Differs(ar_files, ar_tensors[i])

TableFiles == {ManifestName, ScalesName, LnParamsName}

\* C22: when a hex file differs from its source tensor, extract_weights is
\* about to verify or has ended with sys.exit(1), and manifest.txt,
\* weight_scales.vh and ln_params.hex are not written; these three exist only
\* at the end of a run in which every tensor verified.
C22_MismatchFailsGeneration ==
  (ar_prog = "extract_weights") =>
    /\ Mismatch => /\ ar_pc \in {"verify", "exit"}
                   /\ TableFiles \cap DOMAIN ar_files = {}
    /\ (TableFiles \cap DOMAIN ar_files # {}) =>
         /\ ar_pc = "done"
         /\ TableFiles \subseteq DOMAIN ar_files
         /\ ~Mismatch

\* two tensors of equal size shared one hex file: a byte differs, the run
\* ended in sys.exit(1)
C22_Witness ==
  /\ ar_prog = "extract_weights" /\ ar_pc = "exit" /\ ar_damage = "none"
  /\ Len(ar_tensors) = 2
  /\ ar_tensors[1].size = 3 /\ ar_tensors[2].size = 3
  /\ ar_files # <<>>
  /\ Differs(ar_files, ar_tensors[1])
  /\ ~Differs(ar_files, ar_tensors[2])

\* two tensors of different size shared one hex file: the line count differs
C22_WitnessLineCount ==
  /\ ar_prog = "extract_weights" /\ ar_pc = "exit" /\ ar_damage = "none"
  /\ Len(ar_tensors) = 2
  /\ ar_tensors[1].size = 4 /\ ar_tensors[2].size = 1
  /\ Mismatch

\* every tensor verified and the three files were written
C22_WitnessVerified ==
  /\ ar_prog = "extract_weights" /\ ar_pc = "done" /\ Len(ar_tensors) = 2
  /\ TableFiles \subseteq DOMAIN ar_files

\* the positions at which the hex file of a tensor and the tensor differ
BadPositions(files, t) ==
  LET lines == files[HexFileName(t.name)]
  IN  {j \in 1..Min2(Len(lines), t.size) : lines[j] # Hex02(t.data[j])}

\* the lines of the hex file of a tensor
HexLines(t) == ar_files[HexFileName(t.name)]

\* the VERIFY FAIL lines that name a tensor
ReportsOf(t) == {r \in 1..Len(ar_report) : ar_report[r].name = t.name}

\* C23 as stated: after the verification every position at which a hex file
\* differs from its source tensor has a VERIFY FAIL line naming the tensor,
\* the index and both values.
C23_EveryMismatchReported ==
  (ar_pc \in {"exit", "tables", "done"} /\ ar_files # <<>>) =>
    \A i \in 1..Len(ar_tensors) :
      \A j \in BadPositions(ar_files, ar_tensors[i]) :
        \E r \in ReportsOf(ar_tensors[i]) :
          /\ ar_report[r].kind = "value"
          /\ ar_report[r].j = j - 1
          /\ ar_report[r].hex = ParseHex(HexLines(ar_tensors[i])[j])
          /\ ar_report[r].bin = ar_tensors[i].data[j]

\* C23 amended: after the verification every tensor whose hex file differs
\* from it has exactly one VERIFY FAIL line, and a tensor whose file agrees
\* has none: for a wrong line count the line names the tensor and both
\* counts; otherwise it names the tensor, the first differing index and the
\* two values at that index.  Later differing positions are not reported.
C23_FirstMismatchReported ==
  (ar_pc \in {"exit", "tables", "done"} /\ ar_files # <<>>) =>
    /\ \A r \in 1..Len(ar_report) :
         \E i \in 1..Len(ar_tensors) : ar_report[r].name = ar_tensors[i].name
    /\ \A i \in 1..Len(ar_tensors) :
         LET t   == ar_tensors[i]
             bad == BadPositions(ar_files, t)
         IN  IF Len(HexLines(t)) # t.size
             THEN \E r \in ReportsOf(t) :
                    /\ ReportsOf(t) = {r}
                    /\ ar_report[r].kind = "count"
                    /\ ar_report[r].lines = Len(HexLines(t))
                    /\ ar_report[r].size = t.size
             ELSE IF bad # {}
             THEN \E r \in ReportsOf(t) :
                    /\ ReportsOf(t) = {r}
                    /\ ar_report[r].kind = "value"
                    /\ \A j \in bad : ar_report[r].j <= j - 1
                    /\ ar_report[r].j + 1 \in bad
                    /\ ar_report[r].hex =
                         16 * HexLines(t)[ar_report[r].j + 1][1]
                            + HexLines(t)[ar_report[r].j + 1][2]
                    /\ ar_report[r].bin = t.data[ar_report[r].j + 1]
             ELSE ReportsOf(t) = {}

\* a tensor with two differing positions got one VERIFY FAIL line, for the
\* first of them
C23_Witness ==
  /\ ar_pc = "exit" /\ ar_files # <<>> /\ Len(ar_tensors) = 2
  /\ BadPositions(ar_files, ar_tensors[1]) = {2, 3}
  /\ Len(ar_report) = 1 /\ ar_report[1].kind = "value" /\ ar_report[1].j = 1

\* a tensor whose hex file has another line count
C23_WitnessLineCount ==
  /\ ar_pc = "exit" /\ ar_files # <<>> /\ Len(ar_tensors) = 2
  /\ Len(ar_report) = 1 /\ ar_report[1].kind = "count"
  /\ ar_report[1].lines = 128 /\ ar_report[1].size = 4

(***************************************************************************)
(* GELU table claims                                                       *)
(***************************************************************************)
\* C24: for every layer and every activation scale the table built by
\* build_gelu_lut has 256 entries and its entry for input byte 0 is 0: the
\* combined table holds 256 entries per layer built so far, the entry at
\* address (layer, 0) is 0, and the hex file has the same bytes after its
\* comment lines.
C24_GeluZeroEntry ==
  (ge_pc # "off") =>
    /\ Len(ge_lut) = 256 * ge_layer
    /\ \A l \in 0..(ge_layer - 1) :
         /\ ge_lut[256 * l + 1] = 0
         /\ SubSeq(ge_lut, 256 * l + 1, 256 * l + 256)
              = build_gelu_lut(ge_scales[l + 1])
    /\ ge_pc = "done" =>
         /\ Len(ge_file) = N_LAYERS + 256 * N_LAYERS
         /\ \A l \in 0..(N_LAYERS - 1) :
              ge_file[N_LAYERS + 256 * l + 1] = <<0, 0>>

\* all four layers built with different scales; the neighbours of entry 0
\* are not 0
C24_Witness ==
  /\ ge_pc = "done" /\ ge_layer = N_LAYERS
  /\ ge_scales = <<16, 32, 48, 64>>
  /\ ge_lut[1] = 0 /\ ge_lut[2] = 1 /\ ge_lut[128] = 124
  /\ ge_lut[256 * 3 + 1] = 0 /\ ge_lut[256 * 3 + 128] = 127
  /\ ge_lut[256 * 3 + 251] = 254

\* C25: for both configurations the product after the sign step is
\* acc * scale itself, the output is clamp(floor(acc * scale / 2^shift)) as
\* a byte, and no smaller accumulator gives a larger signed output at the
\* same scale.
C25_RequantExactMonotone ==
  rq_pc = "done" /\ rq_cfg \in DUTS =>
    LET sh == rq_cfg.shift
        s  == rq_res.shifted.hi * LIMB + rq_res.shifted.lo
        p  == WMul(acc, scale)
    IN  /\ rq_res.product = p
        /\ s * Pow2(sh - 12) <= p.hi /\ p.hi < (s + 1) * Pow2(sh - 12)
        /\ to_signed8(rq_res.out) = Max2(-128, Min2(127, s))
        /\ \A a \in AccVals(rq_cfg) :
             a <= acc =>
               to_signed8(golden_requant(a, scale, sh, rq_cfg.acc_w,
                                         rq_cfg.scale_w).out)
                 <= to_signed8(rq_res.out)

\* the product of largest magnitude of the 24-bit configuration
C25_Witness ==
  /\ rq_pc = "done"
  /\ rq_cfg = [acc_w |-> 24, scale_w |-> 16, shift |-> 22]
  /\ acc = -Pow2(23) /\ scale = 65535
  /\ rq_res.product = WMul(-Pow2(23), 65535)
  /\ rq_res.product.hi < -Pow2(26)

\* an output inside the clamp range of the 19-bit configuration, strictly
\* above the output of a smaller accumulator
C25_WitnessInside ==
  /\ rq_pc = "done"
  /\ rq_cfg = [acc_w |-> 19, scale_w |-> 16, shift |-> 19]
  /\ scale = 32768 /\ acc > 0
  /\ to_signed8(rq_res.out) \in 1..126
  /\ to_signed8(golden_requant(acc - 16, 32768, 19, 19, 16).out)
       < to_signed8(rq_res.out)

(***************************************************************************)
(* Softmax accumulator and clip claims                                     *)
(***************************************************************************)
\* a 24-bit accumulator that saturates at 0xFFFFFF after every addition,
\* run over ev[lo..hi] from the value a
RECURSIVE SatAccumulate(_, _, _, _)
SatAccumulate(a, ev, lo, hi) ==
  IF lo > hi THEN a
  ELSE IF lo = hi THEN Min2(a + ev[lo], Pow2(24) - 1)
  ELSE LET mid  == (lo + hi) \div 2
           left == SatAccumulate(a, ev, lo, mid)
       IN  IF left = left THEN SatAccumulate(left, ev, mid + 1, hi) ELSE left

\* C26: the exp-sum the kernel keeps, clamped once after all additions, is
\* the value of a 24-bit accumulator saturating after every addition.
C26_ClampOnceIsSaturating ==
  sm_pc \in {"LN_SUM", "NORM", "DONE"} =>
    sum_acc = SatAccumulate(0, exp_vals, 1, Len(exp_vals))

\* the saturating accumulator is full before the last addition
C26_Witness ==
  /\ sm_pc = "LN_SUM" /\ Len(exp_vals) = 513 /\ exp_vals[1] = 32768
  /\ SatAccumulate(0, exp_vals, 1, 512) = Pow2(24) - 1
  /\ sum_acc = Pow2(24) - 1

\* the largest sum below the saturation
C26_WitnessBelow ==
  /\ sm_pc = "LN_SUM" /\ Len(exp_vals) = 512 /\ exp_vals[1] = 32767
  /\ sum_acc = 512 * 32767

\* the distance of an element from the maximum, at most 2048
ClipDist(x) == Min2(max_val - x, 2048)

\* C27: the distance is min(max_val - x, 2048); an element at distance 2048
\* contributes 0 to the exp-sum; an element whose distance, or distance plus
\* ln_offset, reaches 2048 has output 0 whatever the tables hold; and when
\* the exp-sum is 0, ln_offset is 2048 and every output is 0.
C27_ClipGivesZero ==
  /\ sm_pc \in {"LN_SUM", "NORM", "DONE"} =>
       \A i \in 1..Len(sm_inputs) :
         /\ DistQ47(max_val, sm_inputs[i]) = ClipDist(sm_inputs[i])
         /\ ClipDist(sm_inputs[i]) >= 2048 => exp_vals[i] = 0
  /\ sm_pc \in {"NORM", "DONE"} => (sum_acc = 0 => ln_offset = 2048)
  /\ sm_pc = "DONE" =>
       /\ \A i \in 1..Len(sm_inputs) :
            (ClipDist(sm_inputs[i]) + ln_offset >= 2048) => sm_outputs[i] = 0
       /\ sum_acc = 0 => \A i \in 1..Len(sm_inputs) : sm_outputs[i] = 0

\* with the tables of the kernel: one element beyond the clip, and the
\* maximal elements with a non-zero output
C27_Witness ==
  /\ sm_pc = "DONE" /\ lut0 = InitLut0
  /\ Len(sm_inputs) = 3
  /\ max_val - sm_inputs[3] > 2048
  /\ exp_vals[3] = 0 /\ sm_outputs[3] = 0
  /\ sm_outputs[1] > 0

\* an element inside the clip whose distance plus ln_offset is beyond it
C27_WitnessPlusLn ==
  /\ sm_pc = "DONE" /\ lut0 = InitLut0
  /\ Len(sm_inputs) = 53
  /\ ClipDist(sm_inputs[53]) = 1900
  /\ ln_offset \in 149..2047
  /\ sm_outputs[53] = 0 /\ sm_outputs[1] > 0

\* the exp-sum is 0
C27_WitnessZeroSum ==
  /\ sm_pc = "DONE" /\ sum_acc = 0 /\ ln_offset = 2048
  /\ Len(sm_inputs) = 4 /\ sm_inputs[1] # sm_inputs[4]

\* the sum of the first n columns of a row, in full precision
PrefixSum(raw, row, n) ==
  SeqSum([c \in 1..n |-> as_signed8(raw[(row - 1) * MV_DIM + c])])

\* C28: in every row the running sum stays inside the signed 24-bit range
\* after every column, so the wrapping accumulator holds the full-precision
\* sum and golden_matvec and ref_int8_matvec give the same output; 128
\* products of two int8 values stay inside that range as well.  Stated of
\* the row just written.
C28_NoWrapSameOutputs ==
  /\ MV_DIM * 128 * 128 < Pow2(23)
  /\ Len(mv_ref) = mv_row /\ Len(mv_out) = mv_row
  /\ mv_row >= 1 =>
       /\ \A n \in 1..MV_DIM :
            /\ -Pow2(23) <= PrefixSum(mv_raw, mv_row, n)
            /\ PrefixSum(mv_raw, mv_row, n) < Pow2(23)
       /\ mv_acc = mv_racc
       /\ mv_racc = PrefixSum(mv_raw, mv_row, MV_DIM)
       /\ mv_out[mv_row] = mv_ref[mv_row]

\* a row of 128 bytes 0x80: the sum of largest magnitude, -16384
C28_Witness ==
  /\ mv_row = 1 /\ mv_raw[1] = 128
  /\ mv_acc = -16384 /\ mv_racc = -16384
  /\ mv_out = <<-128>> /\ mv_ref = <<-128>>

\* rows of mixed signs, outputs inside the clamp range
C28_WitnessMixed ==
  /\ mv_row = 2 /\ mv_raw[1] = 77
  /\ mv_out = mv_ref /\ mv_out[1] < 0 /\ mv_out[2] > 0

(***************************************************************************)
(* LayerNorm width claims                                                  *)
(***************************************************************************)
\* C29: var_acc >> 7 is below 2^17 and the leading-one scan of width 17
\* returns its leading bit; full_prod is the product centered * inv_std *
\* gamma itself and lies inside the 33-bit signed range; biased is
\* ((full_prod + 16384) >> 15) + beta itself and lies inside the 18-bit
\* signed range.
C29_LayerNormWidths ==
  ln_pc = "DONE" =>
    LET d == Shr(var_acc, 7)
        k == golden_inv_sqrt(d, isqrt_lut, ISQRT_DW).k
    IN  /\ d < Pow2(17)
        /\ d > 0 => (Pow2(k) <= d /\ d < Pow2(k + 1))
        /\ inv_std \in 0..65535
        /\ \A i \in 1..DIM :
             LET g == ln_chan[i].full_prod
                 p == centered[i] * inv_std * SignedByte(gamma_bytes[i])
             IN  /\ centered[i] \in -255..255
                 \* |p| <= 255 * 65535 * 128 < 2^31 < 2^32
                 /\ g = p
                 /\ -Pow2(20) <= Wide(p).hi /\ Wide(p).hi < Pow2(20)
                 /\ ln_chan[i].biased
                      = Shr(p + 16384, 15) + SignedByte(beta_bytes[i])
                 /\ -Pow2(17) <= ln_chan[i].biased
                 /\ ln_chan[i].biased < Pow2(17)

\* a small variance with the largest inv_std: the product of largest
\* magnitude among the runs, beyond 2^26
C29_Witness ==
  /\ ln_pc = "DONE" /\ inv_std = 65535
  /\ centered[1] = 11 /\ gamma_bytes[1] = 128
  /\ ln_chan[1].full_prod = -(11 * 65535 * 128)
  /\ ln_chan[1].biased < -2800

\* the largest variance: the two ends of the int8 range in turn
C29_WitnessVariance ==
  /\ ln_pc = "DONE" /\ ln_inputs = EndsVec
  /\ var_acc = 64 * (127 * 127 + 128 * 128)
  /\ Shr(var_acc, 7) = 16256

(***************************************************************************)
(* Inverse square root: the two widths                                     *)
(***************************************************************************)
\* C30: for d below 2^14 the copy of width 14 and the copy of width 17 read
\* the same table address and return the same result, which is the result of
\* the call made; the widths between them agree as well.
C30_WidthIndependent ==
  (isq_pc = "run" /\ isq_d < Pow2(D_W)) =>
    /\ golden_inv_sqrt(isq_d, isq_lut, D_W)
         = golden_inv_sqrt(isq_d, isq_lut, ISQRT_DW)
    /\ isq_out = golden_inv_sqrt(isq_d, isq_lut, D_W)
    /\ isq_out = golden_inv_sqrt(isq_d, isq_lut, ISQRT_DW)
    /\ \A w \in D_W..ISQRT_DW :
         golden_inv_sqrt(isq_d, isq_lut, w).result = isq_out.result

\* the copy of width 17 called with the largest d of the width 14
C30_Witness ==
  /\ isq_pc = "run" /\ isq_dw = ISQRT_DW /\ isq_d = Pow2(D_W) - 1
  /\ isq_out.k = 13 /\ isq_out.mantissa = 255
  /\ isq_out.result = golden_inv_sqrt(isq_d, isq_lut, D_W).result

\* the copy of width 14 called with a d whose mantissa bits are shifted in
C30_WitnessSmall ==
  /\ isq_pc = "run" /\ isq_dw = D_W /\ isq_d = 5
  /\ isq_out.k = 2 /\ isq_out.mantissa = 64
  /\ isq_out.result = golden_inv_sqrt(isq_d, isq_lut, ISQRT_DW).result

=========================================================================
